---- MODULE Spec2Model ----
(***************************************************************************)
(* A model of the Gazelle runtime.                                         *)
(*  - The streaming parse engine (src/runtime/interpreter.c): the parse    *)
(*    stack of RTN / GLA / IntFA frames, the token buffer, the offsets,    *)
(*    and the public operations gzl_parse, gzl_finish_parse,               *)
(*    gzl_dup_parse_state and gzl_parse_file.                              *)
(*  - The bitcode reader (src/runtime/bc_read_stream.c): a file is a       *)
(*    sequence of bits, read by read_fixed / read_vbr through the block    *)
(*    and abbreviation machinery of bc_rs_next_record and                  *)
(*    bc_rs_next_data_record, with the operand getters.                    *)
(*  - The grammar loader (src/runtime/load_grammar.c): the walk of         *)
(*    gzl_load_grammar over the reader's records.                          *)
(* The reader and the loader are run on fixed corpora of encoded files     *)
(* (BitcodeFiles, GrammarFiles) and on every truncation of them.           *)
(*                                                                         *)
(* Modelling conventions                                                   *)
(*  - C arrays are 0-based, TLA+ sequences 1-based: states[0] is index 1.  *)
(*  - Dynamic arrays live in a heap `mem` of blocks; a parse state holds   *)
(*    the block's address, its _len and its _size.  A block's contents are *)
(*    kept whatever _size says (the capacity arithmetic of dynarray.h is   *)
(*    modelled in _size alone), and realloc keeps the address except in    *)
(*    gzl_dup_parse_state, where both outcomes are drawn.                  *)
(*  - dynarray.h never allocates room for an element (its _size stays 0), *)
(*    so every push writes past the allocation.  What that does is drawn   *)
(*    once per behaviour (variable overrun): the first such write faults,  *)
(*    or the writes land in usable memory and the block keeps them.        *)
(*  - A process that cannot go on is recorded in `fault`: "assert", "ub",   *)
(*    or "hang" for a loop that cannot end.                                *)
(*  - A frame written by push_empty_frame alone has no union member set;   *)
(*    reading its member is a fault "ub".                                  *)
(*  - A failed assert() aborts the process unless the build defines        *)
(*    NDEBUG (variable ndebug); what follows a skipped assert is modelled  *)
(*    where C defines it and is a fault "ub" where it does not.            *)
(***************************************************************************)
EXTENDS Integers, Sequences, FiniteSets, TLC

\* ------------------------------------------------------------------ bounds
\* longest byte string handed to one gzl_parse call
MaxBuf == 2
\* most bytes fed to one parse state over its life
MaxInput == 3
\* most callbacks delivered to one parse state before the model stops calling it
MaxEvents == 8
\* most bytes fed to the original before gzl_dup_parse_state may run
MaxDupAt == 2
\* most calls made on each parse state once gzl_dup_parse_state has run,
\* and the longest byte string handed to them
MaxAfterDup == 1
MaxBufAfterDup == 1
\* most calls made on each of two parse states that are called in step
MaxPairCalls == 3
\* largest operand index asked of a bitcode record, and most operand reads
\* made on one record
MaxIndex == 9
MaxReads == 2

\* ------------------------------------------------------- values and types
\* the NULL char* (a terminal name of NULL is the EOF sentinel)
NULL == "NULL"
\* the NULL struct gzl_rtn_transition*
NULL_TRANSITION == [rtn |-> 0, state |-> 0, idx |-> 0]

\* input bytes: 'x', 'y', '1' and a byte (space) no lexer of these grammars
\* accepts; for the sixth grammar 'x', '1', LF and CR, for the tenth 'x',
\* 'y' and '1'
BytesOf(g) ==
  IF g = 6 THEN {120, 49, 10, 13} ELSE IF g = 10 THEN {120, 121, 49} ELSE {120, 121, 49, 32}

\* the callbacks of a struct gzl_bound_grammar
Callbacks == {"terminal", "start_rule", "end_rule", "error_char", "error_terminal"}

\* struct gzl_offset as set by gzl_init_parse_state
StartOffset == [byte |-> 0, line |-> 1, column |-> 1]

\* The resource limits of struct gzl_parse_state, as a client would set them.
max_stack_depth == 3
max_lookahead == 2

\* ---------------------------------------------------------------- grammars
\* IntFA states: final is the accept label (NULL if none); transitions are
\* inclusive byte ranges.  Transition constructors:
IntfaT(lo, hi, dest) == [ch_low |-> lo, ch_high |-> hi, dest_state |-> dest]
GlaT(term, dest) == [term |-> term, dest_state |-> dest]
TermT(name, dest) == [transition_type |-> "TERMINAL", terminal_name |-> name, dest_state |-> dest]
NontermT(rtn, dest) == [transition_type |-> "NONTERM", nonterminal |-> rtn, dest_state |-> dest]
IntfaState(final, ts) == [final |-> final, transitions |-> ts]
GlaNonfinal(intfa, ts) == [is_final |-> FALSE, intfa |-> intfa, transitions |-> ts, transition_offset |-> 0]
GlaFinal(offset) == [is_final |-> TRUE, intfa |-> 0, transitions |-> <<>>, transition_offset |-> offset]
RtnState(is_final, la, d, ts) == [is_final |-> is_final, lookahead_type |-> la, d |-> d, transitions |-> ts]

\* Lexer with a multi-byte token: IDENT = [xy]+, INT = 1+
LexIdentInt ==
  << IntfaState(NULL, << IntfaT(120, 121, 2), IntfaT(49, 49, 3) >>),
     IntfaState("IDENT", << IntfaT(120, 121, 2) >>),
     IntfaState("INT", << IntfaT(49, 49, 3) >>) >>

\* Lexer of single-byte tokens "x", "y", "1": every accepting state is a dead end
LexChars ==
  << IntfaState(NULL, << IntfaT(120, 120, 2), IntfaT(121, 121, 3), IntfaT(49, 49, 4) >>),
     IntfaState("x", << >>),
     IntfaState("y", << >>),
     IntfaState("1", << >>) >>

\* G1:  S := IDENT INT?
GrammarSeq ==
  [ intfas |-> << LexIdentInt >>,
    glas   |-> << >>,
    rtns   |-> <<
      [ name |-> "S", states |-> <<
          RtnState(FALSE, "HAS_INTFA", 1, << TermT("IDENT", 2) >>),
          RtnState(TRUE,  "HAS_INTFA", 1, << TermT("INT", 3) >>),
          RtnState(TRUE,  "HAS_NEITHER", 0, << >>) >> ] >> ]

\* G2:  S := A | B ;  A := "x"* "y" ;  B := "x"* "1"     (LL(*): the GLA loops on "x")
GrammarStar ==
  [ intfas |-> << LexChars >>,
    glas   |-> << <<
          GlaNonfinal(1, << GlaT("x", 1), GlaT("y", 2), GlaT("1", 3) >>),
          GlaFinal(1),
          GlaFinal(2) >> >>,
    rtns   |-> <<
      [ name |-> "S", states |-> <<
          RtnState(FALSE, "HAS_GLA", 1, << NontermT(2, 2), NontermT(3, 2) >>),
          RtnState(TRUE,  "HAS_NEITHER", 0, << >>) >> ],
      [ name |-> "A", states |-> <<
          RtnState(FALSE, "HAS_INTFA", 1, << TermT("x", 1), TermT("y", 2) >>),
          RtnState(TRUE,  "HAS_NEITHER", 0, << >>) >> ],
      [ name |-> "B", states |-> <<
          RtnState(FALSE, "HAS_INTFA", 1, << TermT("x", 1), TermT("1", 2) >>),
          RtnState(TRUE,  "HAS_NEITHER", 0, << >>) >> ] >> ]

\* G3:  S := E ;  E := (empty)       (the start rule is final without input)
GrammarEmpty ==
  [ intfas |-> << LexChars >>,
    glas   |-> << >>,
    rtns   |-> <<
      [ name |-> "S", states |-> <<
          RtnState(FALSE, "HAS_NEITHER", 0, << NontermT(2, 2) >>),
          RtnState(TRUE,  "HAS_NEITHER", 0, << >>) >> ],
      [ name |-> "E", states |-> <<
          RtnState(TRUE,  "HAS_NEITHER", 0, << >>) >> ] >> ]

\* G4:  S := "x" S | "y"             (one RTN frame per "x")
GrammarNest ==
  [ intfas |-> << LexChars >>,
    glas   |-> << >>,
    rtns   |-> <<
      [ name |-> "S", states |-> <<
          RtnState(FALSE, "HAS_INTFA", 1, << TermT("x", 2), TermT("y", 3) >>),
          RtnState(FALSE, "HAS_NEITHER", 0, << NontermT(1, 3) >>),
          RtnState(TRUE,  "HAS_NEITHER", 0, << >>) >> ] >> ]

\* G5:  S := T ("y" "1")? ;  T := "y"*
\*      (two tokens of lookahead, GLA transitions on EOF, GLA-chosen
\*       terminal transitions and GLA-chosen returns)
GrammarOpt ==
  [ intfas |-> << LexChars >>,
    glas   |-> <<
       << GlaNonfinal(1, << GlaT("y", 2), GlaT(NULL, 4) >>),
          GlaNonfinal(1, << GlaT("y", 3), GlaT("1", 4), GlaT(NULL, 3) >>),
          GlaFinal(1),
          GlaFinal(0) >>,
       << GlaNonfinal(1, << GlaT("y", 2), GlaT(NULL, 3) >>),
          GlaFinal(1),
          GlaFinal(0) >> >>,
    rtns   |-> <<
      [ name |-> "S", states |-> <<
          RtnState(FALSE, "HAS_NEITHER", 0, << NontermT(2, 2) >>),
          RtnState(TRUE,  "HAS_GLA", 2, << TermT("y", 3) >>),
          RtnState(FALSE, "HAS_INTFA", 1, << TermT("1", 4) >>),
          RtnState(TRUE,  "HAS_NEITHER", 0, << >>) >> ],
      [ name |-> "T", states |-> <<
          RtnState(TRUE,  "HAS_GLA", 1, << TermT("y", 1) >>) >> ] >> ]

\* Lexer for words and line breaks: IDENT = x+ (1 x+)*, WS = (LF | CR)+.
\* State 4 (after "x1") accepts nothing: an IDENT state has a transition into it.
LexWords ==
  << IntfaState(NULL, << IntfaT(120, 120, 2), IntfaT(10, 10, 3), IntfaT(13, 13, 3) >>),
     IntfaState("IDENT", << IntfaT(120, 120, 2), IntfaT(49, 49, 4) >>),
     IntfaState("WS", << IntfaT(10, 10, 3), IntfaT(13, 13, 3) >>),
     IntfaState(NULL, << IntfaT(120, 120, 2) >>) >>

\* G6:  S := IDENT IDENT, written with WS in the rule's ignore list
GrammarWords ==
  [ intfas |-> << LexWords >>,
    glas   |-> << >>,
    rtns   |-> <<
      [ name |-> "S", states |-> <<
          RtnState(FALSE, "HAS_INTFA", 1, << TermT("IDENT", 2) >>),
          RtnState(FALSE, "HAS_INTFA", 1, << TermT("IDENT", 3) >>),
          RtnState(TRUE,  "HAS_NEITHER", 0, << >>) >> ] >> ]

\* G7:  S := "1" A "x" "x" | "y" A "1" ;  A := ("x" "1")?
\*      (the GLA of A's start state decides on two tokens, and on what may
\*       follow A in either place: "x" "1" takes A's "x", "x" "x" and "1"
\*       return from A)
GrammarFollow ==
  [ intfas |-> << LexChars >>,
    glas   |-> << <<
          GlaNonfinal(1, << GlaT("x", 2), GlaT("1", 4) >>),
          GlaNonfinal(1, << GlaT("1", 3), GlaT("x", 4) >>),
          GlaFinal(1),
          GlaFinal(0) >> >>,
    rtns   |-> <<
      [ name |-> "S", states |-> <<
          RtnState(FALSE, "HAS_INTFA", 1, << TermT("1", 2), TermT("y", 5) >>),
          RtnState(FALSE, "HAS_NEITHER", 0, << NontermT(2, 3) >>),
          RtnState(FALSE, "HAS_INTFA", 1, << TermT("x", 4) >>),
          RtnState(FALSE, "HAS_INTFA", 1, << TermT("x", 7) >>),
          RtnState(FALSE, "HAS_NEITHER", 0, << NontermT(2, 6) >>),
          RtnState(FALSE, "HAS_INTFA", 1, << TermT("1", 7) >>),
          RtnState(TRUE,  "HAS_NEITHER", 0, << >>) >> ],
      [ name |-> "A", states |-> <<
          RtnState(TRUE,  "HAS_GLA", 1, << TermT("x", 2) >>),
          RtnState(FALSE, "HAS_INTFA", 1, << TermT("1", 3) >>),
          RtnState(TRUE,  "HAS_NEITHER", 0, << >>) >> ] >> ]

\* Lexer of three multi-byte tokens: X = x+, Y = y+, INT = 1+
LexRuns ==
  << IntfaState(NULL, << IntfaT(120, 120, 2), IntfaT(121, 121, 3), IntfaT(49, 49, 4) >>),
     IntfaState("X", << IntfaT(120, 120, 2) >>),
     IntfaState("Y", << IntfaT(121, 121, 3) >>),
     IntfaState("INT", << IntfaT(49, 49, 4) >>) >>

\* G8:  S := A | B ;  A := X Y ;  B := X INT
\*      (the GLA of S decides on the second token, and its tokens end only
\*       at a byte that cannot continue them)
GrammarRuns ==
  [ intfas |-> << LexRuns >>,
    glas   |-> << <<
          GlaNonfinal(1, << GlaT("X", 2) >>),
          GlaNonfinal(1, << GlaT("Y", 3), GlaT("INT", 4) >>),
          GlaFinal(1),
          GlaFinal(2) >> >>,
    rtns   |-> <<
      [ name |-> "S", states |-> <<
          RtnState(FALSE, "HAS_GLA", 1, << NontermT(2, 2), NontermT(3, 2) >>),
          RtnState(TRUE,  "HAS_NEITHER", 0, << >>) >> ],
      [ name |-> "A", states |-> <<
          RtnState(FALSE, "HAS_INTFA", 1, << TermT("X", 2) >>),
          RtnState(FALSE, "HAS_INTFA", 1, << TermT("Y", 3) >>),
          RtnState(TRUE,  "HAS_NEITHER", 0, << >>) >> ],
      [ name |-> "B", states |-> <<
          RtnState(FALSE, "HAS_INTFA", 1, << TermT("X", 2) >>),
          RtnState(FALSE, "HAS_INTFA", 1, << TermT("INT", 3) >>),
          RtnState(TRUE,  "HAS_NEITHER", 0, << >>) >> ] >> ]

\* Lexer with a token that ends only at a byte that cannot continue it and
\* a token that is complete at its only byte: IDENT = x+, "1"
LexMixed ==
  << IntfaState(NULL, << IntfaT(120, 120, 2), IntfaT(49, 49, 3) >>),
     IntfaState("IDENT", << IntfaT(120, 120, 2) >>),
     IntfaState("1", << >>) >>

\* G9:  S := A "1" ;  A := IDENT
\*      (the byte "1" ends IDENT, which ends A, and completes a token itself)
GrammarMixed ==
  [ intfas |-> << LexMixed >>,
    glas   |-> << >>,
    rtns   |-> <<
      [ name |-> "S", states |-> <<
          RtnState(FALSE, "HAS_NEITHER", 0, << NontermT(2, 2) >>),
          RtnState(FALSE, "HAS_INTFA", 1, << TermT("1", 3) >>),
          RtnState(TRUE,  "HAS_NEITHER", 0, << >>) >> ],
      [ name |-> "A", states |-> <<
          RtnState(FALSE, "HAS_INTFA", 1, << TermT("IDENT", 2) >>),
          RtnState(TRUE,  "HAS_NEITHER", 0, << >>) >> ] >> ]

\* G10:  S := X Y? | INT
\*       (one IntFA serves both states that read a token, so the lexer can
\*        hand a final state a terminal it has no transition for)
GrammarTail ==
  [ intfas |-> << LexRuns >>,
    glas   |-> << >>,
    rtns   |-> <<
      [ name |-> "S", states |-> <<
          RtnState(FALSE, "HAS_INTFA", 1, << TermT("X", 2), TermT("INT", 3) >>),
          RtnState(TRUE,  "HAS_INTFA", 1, << TermT("Y", 3) >>),
          RtnState(TRUE,  "HAS_NEITHER", 0, << >>) >> ] >> ]

Grammars ==
  << GrammarSeq, GrammarStar, GrammarEmpty, GrammarNest, GrammarOpt, GrammarWords,
     GrammarFollow, GrammarRuns, GrammarMixed, GrammarTail >>

\* the terminals the author of grammar g listed to be ignored inside rule rtn.
\* struct gzl_rtn has no member for the list, so the loaded grammar (the
\* records above) does not carry it.
IgnoreList(g, rtn) == IF g = 6 /\ rtn = 1 THEN {"WS"} ELSE {}

\* ------------------------------------------------------------------- state
VARIABLES
  grammar,   \* index into Grammars: bound_grammar->grammar, fixed for a run
  ndebug,    \* whether the build defines NDEBUG (assert() compiled out)
  overrun,   \* what a write past a dynarray's allocation does: "fault" or "benign"
  mem,       \* heap: address -> contents of the dynamic array stored there
  live,      \* addresses of the blocks that are allocated
  ps,        \* the parse states: 1 is the original, 2 the duplicate
  cb,        \* per parse state, the callbacks delivered so far
  fault,     \* "none", or how the process ended: "assert", "ub" or "hang"
  fed,       \* per parse state, every byte handed to gzl_parse so far
  last,      \* per parse state, a record of the latest call made on it
  client,    \* the callback at which the client wants the parse cancelled:
             \* "never", or the kind of the callback that asks for it
  driver,    \* a gzl_parse_file call followed step by step: its position
             \* pc, the file, the file position, is_eof and its struct
             \* gzl_buffer (pc is "none" where the call is one step)
  stream,    \* the struct bc_read_stream of the bitcode reader, with the
             \* file it reads and a record of the latest call on it
  image      \* what load_grammar has built and how it ended

vars ==
  << grammar, ndebug, overrun, mem, live, ps, cb, fault, fed, last, client, driver,
     stream, image >>


\* the grammar of this run (s->bound_grammar->grammar)
G == Grammars[grammar]
RtnStateOf(rtn, st) == G.rtns[rtn].states[st]
RtnTransition(t) == G.rtns[t.rtn].states[t.state].transitions[t.idx]
GlaStateOf(gla, st) == G.glas[gla][st]
IntfaStateOf(intfa, st) == G.intfas[intfa][st]

\* --------------------------------------------------------------- dynarray.h
\* 2^n
RECURSIVE Pow2(_)
Pow2(n) == IF n = 0 THEN 1 ELSE 2 * Pow2(n - 1)

\* v |= v >> 1; ... v |= v >> 16: every bit below the top set bit of v < 2^30
SmearBits(v) == Pow2(CHOOSE k \in 0..30 : v < Pow2(k) /\ (k = 0 \/ v >= Pow2(k - 1))) - 1

\* ROUND_UP_TO_POWER_OF_TWO, in unsigned int arithmetic: for num = 0, v-- wraps
\* to UINT_MAX, the shifts leave every bit set, and v++ wraps back to 0
ROUND_UP_TO_POWER_OF_TWO(num) ==
  IF num = 0 THEN 0 ELSE SmearBits(num - 1) + 1

\* INIT_DYNARRAY(name, initial_len, initial_size): the _len and _size it sets
INIT_DYNARRAY(initial_len, initial_size) ==
  [len |-> initial_len, size |-> ROUND_UP_TO_POWER_OF_TWO(initial_len)]

\* RESIZE_DYNARRAY(name, desired_len): the _size it leaves
RESIZE_DYNARRAY(size, desired_len) ==
  IF size < desired_len THEN size * 2
  ELSE IF size > desired_len * 4 THEN size \div 2
  ELSE size

\* whether RESIZE_DYNARRAY calls realloc
ResizeReallocs(size, desired_len) == size < desired_len \/ size > desired_len * 4

\* store v at C index n-1 of a block
Put(block, n, v) == IF n <= Len(block) THEN [block EXCEPT ![n] = v] ELSE Append(block, v)

\* ------------------------------------------------- the engine's working view
\* The engine functions below take and return a context c:
\*   s       struct gzl_parse_state        mem   the heap
\*   cb      callbacks delivered           status  enum gzl_parse_status, or
\*           "ABORT" once the process has died (fault says how)
\*   entered_gla, rto   out-parameters (*entered_gla, *rtn_term_offset)
\*   nullterm  set when the lexer hands process_terminal a NULL name
\*   oob     set when a frame of an empty stack is read
\*   split, munch   see the record of the latest call below
StackLen(c) == c.s.parse_stack_len
Frame(c, n) == c.mem[c.s.parse_stack][n]
DYNARRAY_GET_TOP(c) == Frame(c, StackLen(c))
SetFrame(c, n, f) == [c EXCEPT !.mem[c.s.parse_stack] = Put(@, n, f)]
SetTop(c, f) == SetFrame(c, StackLen(c), f)
TokenBuffer(c) == SubSeq(c.mem[c.s.token_buffer], 1, c.s.token_buffer_len)
Stack(c) == SubSeq(c.mem[c.s.parse_stack], 1, c.s.parse_stack_len)

\* assert(cond) failed: abort, or with NDEBUG run on into undefined behaviour
Fail(c) == [c EXCEPT !.status = "ABORT", !.fault = IF ndebug THEN "ub" ELSE "assert"]
\* undefined behaviour whatever the build
Undefined(c) == [c EXCEPT !.status = "ABORT", !.fault = "ub"]

\* a write to the top slot of a dynarray of the given capacity and length:
\* past the allocation it is undefined, and either kills the process or
\* lands in memory the allocator left usable
Overruns(size, len) == len > size /\ overrun = "fault"

\* no byte was tried again
NoRetry == [outcome |-> "never", at |-> 0, ch |-> 0, fresh |-> << >>, below |-> << >>, after |-> 0]

\* gzl_finish_parse did not come to its check of the RTN frames
NoPhase == [entered |-> FALSE, stack |-> << >>, cbn |-> 0]

\* status = GZL_PARSE_STATUS_OK in a process that is still alive
Ok(c) == IF c.status = "ABORT" THEN c ELSE [c EXCEPT !.status = "OK"]

\* every frame of the stack that lies under an RTN frame is an RTN frame
\* whose rtn_transition is a nonterminal transition of its own rule into the
\* rule of the frame above
CallerLinked(stack) ==
  \A k \in 1..(Len(stack) - 1) :
    stack[k + 1].frame_type = "RTN"
      => /\ stack[k].frame_type = "RTN"
         /\ stack[k].rtn_transition # NULL_TRANSITION
         /\ stack[k].rtn_transition.rtn = stack[k].rtn
         /\ RtnTransition(stack[k].rtn_transition).transition_type = "NONTERM"
         /\ RtnTransition(stack[k].rtn_transition).nonterminal = stack[k + 1].rtn

\* a callback is invoked with the parse state: what a client can see of it
\* (first: the offset of the oldest terminal in the token buffer, or the
\* current offset if the buffer is empty; linked: CallerLinked of the stack)
Event(c, kind, arg) ==
  [kind |-> kind, arg |-> arg, depth |-> StackLen(c),
   linked |-> CallerLinked(Stack(c)),
   byte |-> c.s.offset.byte, open |-> c.s.open_terminal_offset.byte,
   first |-> IF c.s.token_buffer_len > 0
               THEN c.mem[c.s.token_buffer][1].offset.byte ELSE c.s.offset.byte]
Callback(c, kind, arg) ==
  IF c.status = "ABORT" \/ kind \notin c.s.bound_grammar THEN c
  ELSE [c EXCEPT !.cb = Append(@, Event(c, kind, arg))]

\* line 70: RESIZE_DYNARRAY(s->parse_stack, s->parse_stack_len+1)
grow_parse_stack(c) ==
  [c EXCEPT !.s.parse_stack_size = RESIZE_DYNARRAY(@, c.s.parse_stack_len + 1),
            !.s.parse_stack_len = @ + 1]

\* the stores through the frame pointer DYNARRAY_GET_TOP returned
write_top_frame(c, frame) ==
  IF c.status = "ABORT" THEN c
  ELSE IF Overruns(c.s.parse_stack_size, c.s.parse_stack_len) THEN Undefined(c)
  ELSE SetTop(c, frame)

\* push_empty_frame sets frame_type and start_offset only: the members of the
\* union f are indeterminate until the caller stores them
Indeterminate(frame) == DOMAIN frame = {"frame_type", "start_offset"}

push_empty_frame(c, frame_type, start_offset) ==
  write_top_frame(grow_parse_stack(c),
                  [frame_type |-> frame_type, start_offset |-> start_offset])

\* push_intfa_frame storing the start of the input as the frame's start_offset
push_intfa_frame_at_origin(c, intfa, start_offset) ==
  write_top_frame(push_empty_frame(c, "INTFA", StartOffset),
                  [frame_type |-> "INTFA", start_offset |-> StartOffset,
                   intfa |-> intfa, intfa_state |-> 1])

push_intfa_frame(c, intfa, start_offset) ==
  write_top_frame(push_empty_frame(c, "INTFA", start_offset),
                  [frame_type |-> "INTFA", start_offset |-> start_offset,
                   intfa |-> intfa, intfa_state |-> 1])

push_gla_frame(c, gla, start_offset) ==
  write_top_frame(push_empty_frame(c, "GLA", start_offset),
                  [frame_type |-> "GLA", start_offset |-> start_offset,
                   gla |-> gla, gla_state |-> 1])

push_rtn_frame(c, rtn, start_offset) ==
  Ok(Callback(write_top_frame(push_empty_frame(c, "RTN", start_offset),
                              [frame_type |-> "RTN", start_offset |-> start_offset,
                               rtn |-> rtn, rtn_transition |-> NULL_TRANSITION,
                               rtn_state |-> 1]),
              "start_rule", [rtn |-> G.rtns[rtn].name, start |-> start_offset.byte]))

\* push_rtn_frame_for_transition without the store of line 127
push_rtn_frame_for_transition_unlinked(c, t, start_offset) ==
  push_rtn_frame(c, RtnTransition(t).nonterminal, start_offset)

push_rtn_frame_for_transition(c, t, start_offset) ==
  push_rtn_frame(SetTop(c, [DYNARRAY_GET_TOP(c) EXCEPT !.rtn_transition = t]),
                 RtnTransition(t).nonterminal, start_offset)

\* pop_frame: the frame it returns is NULL exactly when parse_stack_len is 0 afterwards
pop_frame(c) ==
  IF c.status = "ABORT" THEN c
  ELSE IF ~(c.s.parse_stack_len > 0) THEN Fail(c)
  ELSE [c EXCEPT !.s.parse_stack_size = RESIZE_DYNARRAY(@, c.s.parse_stack_len - 1),
                 !.s.parse_stack_len = @ - 1]

\* lines 158-176 of pop_rtn_frame: resume the caller's frame, if there is one
return_to_caller(c) ==
  IF c.status = "ABORT" THEN c
  ELSE IF c.s.parse_stack_len = 0 THEN [c EXCEPT !.status = "EOF"]
  ELSE
    LET frame == DYNARRAY_GET_TOP(c)
    IN  IF frame.frame_type # "RTN" THEN Fail(c)
        ELSE IF frame.rtn_transition # NULL_TRANSITION
          THEN [SetTop(c, [frame EXCEPT !.rtn_state = RtnTransition(frame.rtn_transition).dest_state])
                  EXCEPT !.status = "OK"]
        ELSE IF c.s.parse_stack_len # 1 /\ ~ndebug THEN Fail(c)
        ELSE [c EXCEPT !.status = "OK"]

pop_rtn_frame_silently(c) ==
  IF c.status = "ABORT" THEN c
  ELSE IF DYNARRAY_GET_TOP(c).frame_type # "RTN" THEN Fail(c)
  ELSE return_to_caller(pop_frame(c))

pop_rtn_frame(c) ==
  IF c.status = "ABORT" THEN c
  ELSE IF DYNARRAY_GET_TOP(c).frame_type # "RTN" THEN Fail(c)
  ELSE return_to_caller(
         pop_frame(Callback(c, "end_rule",
                            [rtn |-> G.rtns[DYNARRAY_GET_TOP(c).rtn].name,
                             start |-> DYNARRAY_GET_TOP(c).start_offset.byte])))

pop_gla_frame(c) ==
  IF c.status = "ABORT" THEN c
  ELSE IF DYNARRAY_GET_TOP(c).frame_type # "GLA" THEN Fail(c)
  ELSE pop_frame(c)

pop_intfa_frame(c) ==
  IF c.status = "ABORT" THEN c
  ELSE IF DYNARRAY_GET_TOP(c).frame_type # "INTFA" THEN Fail(c)
  ELSE pop_frame(c)

\* descend_to_gla's while loop
RECURSIVE descend_loop(_, _)
descend_loop(c, start_offset) ==
  IF c.status # "OK" \/ DYNARRAY_GET_TOP(c).frame_type # "RTN" THEN c
  ELSE
    LET rtn_frame == DYNARRAY_GET_TOP(c)
        rtn_state == RtnStateOf(rtn_frame.rtn, rtn_frame.rtn_state)
    IN  CASE rtn_state.lookahead_type = "HAS_INTFA" -> [c EXCEPT !.status = "OK"]
          [] rtn_state.lookahead_type = "HAS_GLA" ->
               Ok([push_gla_frame(c, rtn_state.d, start_offset) EXCEPT !.entered_gla = TRUE])
          [] rtn_state.lookahead_type = "HAS_NEITHER" ->
               IF ~(Len(rtn_state.transitions) < 2) THEN Fail(c)
               ELSE IF Len(rtn_state.transitions) = 0
                 THEN descend_loop(pop_rtn_frame(c), start_offset)
               ELSE IF rtn_state.transitions[1].transition_type # "NONTERM" THEN Fail(c)
               ELSE descend_loop(
                      push_rtn_frame_for_transition(
                        c, [rtn |-> rtn_frame.rtn, state |-> rtn_frame.rtn_state, idx |-> 1],
                        start_offset),
                      start_offset)

descend_to_gla(c, start_offset) ==
  descend_loop(Ok([c EXCEPT !.entered_gla = FALSE]), start_offset)

push_intfa_frame_for_gla_or_rtn(c) ==
  LET frame == DYNARRAY_GET_TOP(c)
  IN  IF frame.frame_type = "GLA"
        THEN IF GlaStateOf(frame.gla, frame.gla_state).is_final THEN Fail(c)
             ELSE push_intfa_frame(c, GlaStateOf(frame.gla, frame.gla_state).intfa, c.s.offset)
      ELSE IF frame.frame_type = "RTN"
        THEN IF RtnStateOf(frame.rtn, frame.rtn_state).lookahead_type # "HAS_INTFA"
               THEN Undefined(c)
             ELSE push_intfa_frame(c, RtnStateOf(frame.rtn, frame.rtn_state).d, c.s.offset)
      ELSE Fail(c)

\* process_terminal returning without the call of line 474
resume_lexing_without_frame(c) ==
  c

\* if(status != GZL_PARSE_STATUS_OK) return status; push_intfa_frame_for_gla_or_rtn(s);
resume_lexing(c) ==
  IF c.status # "OK" THEN c ELSE Ok(push_intfa_frame_for_gla_or_rtn(c))

\* lines 292-294 of do_rtn_terminal_transition
take_rtn_transition(c, t) ==
  IF RtnTransition(t).transition_type # "TERMINAL" THEN Fail(c)
  ELSE [SetTop(c, [DYNARRAY_GET_TOP(c) EXCEPT !.rtn_state = RtnTransition(t).dest_state])
          EXCEPT !.status = "OK"]

do_rtn_terminal_transition_twice(c, t, terminal) ==
  IF DYNARRAY_GET_TOP(c).frame_type # "RTN" THEN Fail(c)
  ELSE take_rtn_transition(
         Callback(Callback(SetTop(c, [DYNARRAY_GET_TOP(c) EXCEPT !.rtn_transition = t]),
                           "terminal", terminal),
                  "terminal", terminal),
         t)

\* do_rtn_terminal_transition with lines 292-294 inside the branch of line 286
do_rtn_terminal_transition_when_bound(c, t, terminal) ==
  IF DYNARRAY_GET_TOP(c).frame_type # "RTN" THEN Fail(c)
  ELSE IF "terminal" \in c.s.bound_grammar
    THEN take_rtn_transition(
           Callback(SetTop(c, [DYNARRAY_GET_TOP(c) EXCEPT !.rtn_transition = t]),
                    "terminal", terminal),
           t)
  ELSE c

do_rtn_terminal_transition(c, t, terminal) ==
  IF DYNARRAY_GET_TOP(c).frame_type # "RTN" THEN Fail(c)
  ELSE take_rtn_transition(
         IF "terminal" \in c.s.bound_grammar
           THEN Callback(SetTop(c, [DYNARRAY_GET_TOP(c) EXCEPT !.rtn_transition = t]),
                         "terminal", terminal)
           ELSE c,
         t)

\* the for loop of find_rtn_terminal_transition from index i: the index of
\* the first terminal transition on name, 0 if there is none
RECURSIVE rtn_transition_from(_, _, _)
rtn_transition_from(ts, name, i) ==
  IF i > Len(ts) THEN 0
  ELSE IF ts[i].transition_type = "TERMINAL" /\ ts[i].terminal_name = name THEN i
  ELSE rtn_transition_from(ts, name, i + 1)

\* the transition found, as a struct gzl_rtn_transition*, or NULL_TRANSITION
find_rtn_terminal_transition(c, terminal) ==
  LET rtn_frame == DYNARRAY_GET_TOP(c)
      ts == RtnStateOf(rtn_frame.rtn, rtn_frame.rtn_state).transitions
  IN  IF rtn_transition_from(ts, terminal.name, 1) = 0 THEN NULL_TRANSITION
      ELSE [rtn |-> rtn_frame.rtn, state |-> rtn_frame.rtn_state,
            idx |-> rtn_transition_from(ts, terminal.name, 1)]

\* the for loop of find_gla_transition from index i
RECURSIVE gla_transition_from(_, _, _)
gla_transition_from(ts, term_name, i) ==
  IF i > Len(ts) THEN 0
  ELSE IF ts[i].term = term_name THEN i
  ELSE gla_transition_from(ts, term_name, i + 1)

\* the index of the transition found in gla_state's transitions, 0 for NULL
find_gla_transition(gla_state, term_name) ==
  gla_transition_from(gla_state.transitions, term_name, 1)

\* take_predicted_transition reading transitions[0] whatever the offset
take_predicted_transition_first(c, offset) ==
  IF c.status = "ABORT" THEN c
  ELSE IF offset = 0 THEN pop_rtn_frame(c)
  ELSE
    LET rf == DYNARRAY_GET_TOP(c)
        t == [rtn |-> rf.rtn, state |-> rf.rtn_state, idx |-> 1]
        next_term == c.mem[c.s.token_buffer][c.rto + 1]
    IN
    IF rf.frame_type # "RTN" \/ offset > Len(RtnStateOf(rf.rtn, rf.rtn_state).transitions)
      THEN Undefined(c)
    ELSE IF RtnTransition(t).transition_type = "TERMINAL"
      THEN IF next_term.name # RtnTransition(t).terminal_name /\ ~ndebug
             THEN Fail([c EXCEPT !.rto = @ + 1])
           ELSE do_rtn_terminal_transition([c EXCEPT !.rto = @ + 1], t, next_term)
    ELSE push_rtn_frame_for_transition(c, t, next_term.offset)

\* lines 367-386 of do_gla_transition: the GLA frame is popped, its final
\* state names transition number offset of the RTN state below (0: return)
take_predicted_transition(c, offset) ==
  IF c.status = "ABORT" THEN c
  ELSE IF offset = 0 THEN pop_rtn_frame(c)
  ELSE
    LET rf == DYNARRAY_GET_TOP(c)
        t == [rtn |-> rf.rtn, state |-> rf.rtn_state, idx |-> offset]
        next_term == c.mem[c.s.token_buffer][c.rto + 1]
    IN
    IF rf.frame_type # "RTN" \/ offset > Len(RtnStateOf(rf.rtn, rf.rtn_state).transitions)
      THEN Undefined(c)
    ELSE IF RtnTransition(t).transition_type = "TERMINAL"
      THEN IF next_term.name # RtnTransition(t).terminal_name /\ ~ndebug
             THEN Fail([c EXCEPT !.rto = @ + 1])
           ELSE do_rtn_terminal_transition([c EXCEPT !.rto = @ + 1], t, next_term)
    ELSE push_rtn_frame_for_transition(c, t, next_term.offset)

\* what the GLA decided, before it is acted on (the GLA frame is popped)
Decided(c, offset) ==
  IF c.status = "ABORT" \/ c.s.parse_stack_len = 0 THEN c
  ELSE [c EXCEPT !.decided =
          Append(@, [offset |-> offset, below |-> DYNARRAY_GET_TOP(c),
                     buffered |-> SubSeq(c.mem[c.s.token_buffer], 1, c.s.token_buffer_len),
                     rto |-> c.rto, cbn |-> Len(c.cb)])]

\* lines 361-389 of do_gla_transition: the GLA frame is in state dest
enter_gla_state(c, dest_gla_state) ==
  IF ~dest_gla_state.is_final THEN c
  ELSE take_predicted_transition(Decided(pop_gla_frame(c), dest_gla_state.transition_offset),
                                 dest_gla_state.transition_offset)

\* do_gla_transition: *rtn_term_offset is c.rto
do_gla_transition(c, term_name) ==
  LET frame == DYNARRAY_GET_TOP(c)
      gla_state == GlaStateOf(frame.gla, frame.gla_state)
  IN
  IF frame.frame_type # "GLA" THEN Fail(c)
  ELSE IF gla_state.is_final THEN Fail(c)
  ELSE IF find_gla_transition(gla_state, term_name) = 0 THEN Fail(c)
  ELSE enter_gla_state(
         [SetTop(c, [frame EXCEPT !.gla_state =
                       gla_state.transitions[find_gla_transition(gla_state, term_name)].dest_state])
            EXCEPT !.status = "OK"],
         GlaStateOf(frame.gla,
                    gla_state.transitions[find_gla_transition(gla_state, term_name)].dest_state))

\* process_terminal's do ... while loop.  gto is gla_term_offset, c.rto
\* rtn_term_offset, frame_type the local of that name, term the terminal
\* just appended (what DYNARRAY_GET_TOP(s->token_buffer) pointed at).
RECURSIVE process_loop(_, _, _, _)

\* lines 477-479: the loop's condition
loop_test(c, gto, frame_type, term) ==
  IF /\ c.status = "OK"
     /\ \/ frame_type = "RTN" /\ c.rto < c.s.token_buffer_len
        \/ frame_type = "GLA" /\ gto < c.s.token_buffer_len
    THEN process_loop(c, gto, frame_type, term)
    ELSE c

\* lines 465-475: after descend_to_gla
after_descent(c, gto, frame_type, term) ==
  loop_test(c,
            IF c.entered_gla THEN c.rto ELSE gto,
            IF c.status = "OK" THEN DYNARRAY_GET_TOP(c).frame_type ELSE frame_type,
            term)

\* lines 457-475: after the RTN or GLA transition
after_transition(c, gto, frame_type, term) ==
  IF c.status # "OK" THEN loop_test(c, gto, frame_type, term)
  ELSE after_descent(
         descend_to_gla(c, IF c.rto < c.s.token_buffer_len
                             THEN c.mem[c.s.token_buffer][c.rto + 1].offset
                             ELSE c.s.offset),
         gto, frame_type, term)

\* lines 433-449: an RTN frame is on top; rtn_term_offset is already incremented
rtn_step_reports_and_goes_on(c, rtn_term, gto, term) ==
  IF rtn_term.name = NULL THEN loop_test(c, gto, "RTN", term)
  ELSE IF find_rtn_terminal_transition(c, rtn_term) = NULL_TRANSITION
    THEN loop_test([Callback(c, "error_terminal", term)
                      EXCEPT !.rejected = TRUE, !.rejected_term = rtn_term],
                   gto, "RTN", term)
  ELSE after_transition(
         do_rtn_terminal_transition(c, find_rtn_terminal_transition(c, rtn_term), rtn_term),
         gto, "RTN", term)

rtn_step(c, rtn_term, gto, term) ==
  IF rtn_term.name = NULL THEN loop_test(c, gto, "RTN", term)
  ELSE IF find_rtn_terminal_transition(c, rtn_term) = NULL_TRANSITION
    THEN [Callback(c, "error_terminal", term)
            EXCEPT !.status = "ERROR", !.rejected = TRUE, !.rejected_term = rtn_term]
  ELSE after_transition(
         do_rtn_terminal_transition(c, find_rtn_terminal_transition(c, rtn_term), rtn_term),
         gto, "RTN", term)

process_loop(c, gto, frame_type, term) ==
  IF c.status = "ABORT" THEN c
  ELSE IF frame_type = "RTN"
    THEN rtn_step([c EXCEPT !.rto = @ + 1], c.mem[c.s.token_buffer][c.rto + 1], gto, term)
  ELSE after_transition(do_gla_transition(c, c.mem[c.s.token_buffer][gto + 1].name),
                        gto + 1, frame_type, term)

\* lines 418-425: append the terminal to the token buffer
append_terminal(c, term) ==
  IF Overruns(RESIZE_DYNARRAY(c.s.token_buffer_size, c.s.token_buffer_len + 1),
              c.s.token_buffer_len + 1)
    THEN Undefined(c)
  ELSE [c EXCEPT !.s.token_buffer_size = RESIZE_DYNARRAY(@, c.s.token_buffer_len + 1),
                 !.s.token_buffer_len = @ + 1,
                 !.mem[c.s.token_buffer] = Put(@, c.s.token_buffer_len + 1, term),
                 !.rto = 0, !.status = "OK"]

\* lines 484-503: drop the consumed terminals.  The error_terminal path
\* returned from inside the loop and never gets here.
remove_consumed_opens_at_offset(c) ==
  IF c.status = "ERROR" \/ c.status = "ABORT" THEN c
  ELSE
    LET tb == c.mem[c.s.token_buffer]
        rto == IF c.rto < c.s.token_buffer_len /\ tb[c.rto + 1].name = NULL
                 THEN c.rto + 1 ELSE c.rto
        remaining_terminals == c.s.token_buffer_len - rto
    IN  [c EXCEPT !.mem[c.s.token_buffer] =
                    [i \in 1..Len(tb) |-> IF i <= remaining_terminals THEN tb[rto + i] ELSE tb[i]],
                  !.s.token_buffer_size = RESIZE_DYNARRAY(@, remaining_terminals),
                  !.s.token_buffer_len = remaining_terminals,
                  !.rto = rto,
                  !.s.open_terminal_offset = c.s.offset]

\* process_terminal returning without the compaction of lines 484-503
remove_consumed_keeping_all(c) ==
  c

remove_consumed(c) ==
  IF c.status = "ERROR" \/ c.status = "ABORT" THEN c
  ELSE
    LET tb == c.mem[c.s.token_buffer]
        rto == IF c.rto < c.s.token_buffer_len /\ tb[c.rto + 1].name = NULL
                 THEN c.rto + 1 ELSE c.rto
        remaining_terminals == c.s.token_buffer_len - rto
    IN  [c EXCEPT !.mem[c.s.token_buffer] =
                    [i \in 1..Len(tb) |-> IF i <= remaining_terminals THEN tb[rto + i] ELSE tb[i]],
                  !.s.token_buffer_size = RESIZE_DYNARRAY(@, remaining_terminals),
                  !.s.token_buffer_len = remaining_terminals,
                  !.rto = rto,
                  !.s.open_terminal_offset =
                    IF remaining_terminals > 0 THEN tb[rto + 1].offset ELSE c.s.offset]

\* lines 414-503 of process_terminal: the IntFA frame is popped
feed_terminal(c, term) ==
  IF c.status = "ABORT" THEN c
  ELSE IF c.s.parse_stack_len = 0 THEN Undefined(c)
  ELSE remove_consumed(
         process_loop(append_terminal(c, term), c.s.token_buffer_len,
                      DYNARRAY_GET_TOP(c).frame_type, term))

\* a terminal the lexer hands to process_terminal (the EOF sentinel, whose
\* name is NULL, is not one)
Lexed(c, term) ==
  IF term.name = NULL THEN c ELSE [c EXCEPT !.lexed = Append(@, term)]

process_terminal(c, term_name, start_offset, len) ==
  feed_terminal(pop_intfa_frame(Lexed(c, [name |-> term_name, offset |-> start_offset,
                                          len |-> len])),
                [name |-> term_name, offset |-> start_offset, len |-> len])

\* the for loop of find_intfa_transition from index i
RECURSIVE intfa_transition_from(_, _, _)
intfa_transition_from(ts, ch, i) ==
  IF i > Len(ts) THEN 0
  ELSE IF ch >= ts[i].ch_low /\ ch <= ts[i].ch_high THEN i
  ELSE intfa_transition_from(ts, ch, i + 1)

\* the index of the transition out of the IntFA frame's state on ch, 0 for NULL
find_intfa_transition(frame, ch) ==
  intfa_transition_from(IntfaStateOf(frame.intfa, frame.intfa_state).transitions, ch, 1)

\* lines 579-597 of do_intfa_transition: count the byte, move the IntFA
\* frame on top along transition ti
advance_in_one_bit(c, ch, ti) ==
  LET intfa_frame == DYNARRAY_GET_TOP(c)
      t == IntfaStateOf(intfa_frame.intfa, intfa_frame.intfa_state).transitions[ti]
      is_newline_char == (ch = 10 \/ ch = 13)
  IN  SetTop([c EXCEPT !.s.offset =
                         [byte   |-> (@.byte + 1) % 2,
                          line   |-> IF is_newline_char /\ ~c.s.last_char_was_newline
                                       THEN @.line + 1 ELSE @.line,
                          column |-> IF is_newline_char
                                       THEN (IF ~c.s.last_char_was_newline THEN 1 ELSE @.column)
                                       ELSE @.column + 1],
                       !.s.last_char_was_newline = is_newline_char],
             [intfa_frame EXCEPT !.intfa_state = t.dest_state])

advance(c, ch, ti) ==
  LET intfa_frame == DYNARRAY_GET_TOP(c)
      t == IntfaStateOf(intfa_frame.intfa, intfa_frame.intfa_state).transitions[ti]
      is_newline_char == (ch = 10 \/ ch = 13)
  IN  SetTop([c EXCEPT !.s.offset =
                         [byte   |-> @.byte + 1,
                          line   |-> IF is_newline_char /\ ~c.s.last_char_was_newline
                                       THEN @.line + 1 ELSE @.line,
                          column |-> IF is_newline_char
                                       THEN (IF ~c.s.last_char_was_newline THEN 1 ELSE @.column)
                                       ELSE @.column + 1],
                       !.s.last_char_was_newline = is_newline_char],
             [intfa_frame EXCEPT !.intfa_state = t.dest_state])

\* an accepting state without transitions was reached: what is handed to
\* process_terminal, and the frame that lexed it
Finalising(c, term) ==
  [c EXCEPT !.eager = Append(@, [term |-> term, frame |-> DYNARRAY_GET_TOP(c),
                                 at |-> c.s.offset.byte, cbn |-> Len(c.cb),
                                 status |-> "ABORT", top |-> << >>])]

\* the same, after lines 599-611
Finalised(c) ==
  IF c.status = "ABORT" THEN c
  ELSE [c EXCEPT !.eager[Len(c.eager)] =
          [@ EXCEPT !.status = c.status,
                    !.top = IF c.s.parse_stack_len = 0 THEN << >> ELSE DYNARRAY_GET_TOP(c)]]

\* lines 602-613 of do_intfa_transition.  slot is where `frame` points: the
\* stack index the top frame had when do_intfa_transition was entered.
finish_terminal_early(c, slot) ==
  LET intfa_frame == DYNARRAY_GET_TOP(c)
      st == IntfaStateOf(intfa_frame.intfa, intfa_frame.intfa_state)
  IN  IF st.final # NULL /\ Len(st.transitions) = 0
        THEN Finalised(
               resume_lexing(
                 process_terminal(
                   Finalising(c, [name |-> st.final, offset |-> Frame(c, slot).start_offset,
                                  len |-> c.s.offset.byte - Frame(c, slot).start_offset.byte]),
                   st.final, Frame(c, slot).start_offset,
                   c.s.offset.byte - Frame(c, slot).start_offset.byte)))
        ELSE [c EXCEPT !.status = "OK"]

\* lines 576-613 of do_intfa_transition: the byte is accepted by transition ti
accept_byte(c, ch, ti, slot) == finish_terminal_early(advance(c, ch, ti), slot)

\* the byte that ended a lexeme is tried in the frame now on top
Tried(c, outcome, after) ==
  IF c.retry.outcome = "never" THEN c
  ELSE [c EXCEPT !.retry = [@ EXCEPT !.outcome = outcome, !.after = after,
                                     !.fresh = DYNARRAY_GET_TOP(c),
                                     !.below = Frame(c, StackLen(c) - 1)]]

\* lines 563-574 of do_intfa_transition: try the byte again in the new IntFA
retry_byte_skipping(c, ch, slot) ==
  IF c.status # "OK" THEN c
  ELSE IF find_intfa_transition(DYNARRAY_GET_TOP(c), ch) = 0
    THEN [Tried(c, "error_char", c.s.offset.byte) EXCEPT !.s.offset.byte = @ + 1]
  ELSE accept_byte(Tried(c, "taken", c.s.offset.byte + 1),
                   ch, find_intfa_transition(DYNARRAY_GET_TOP(c), ch), slot)

retry_byte(c, ch, slot) ==
  IF c.status # "OK" THEN c
  ELSE IF find_intfa_transition(DYNARRAY_GET_TOP(c), ch) = 0
    THEN [Callback(Tried(c, "error_char", c.s.offset.byte), "error_char", [ch |-> ch])
            EXCEPT !.status = "ERROR"]
  ELSE accept_byte(Tried(c, "taken", advance(c, ch, find_intfa_transition(DYNARRAY_GET_TOP(c), ch)).s.offset.byte),
                   ch, find_intfa_transition(DYNARRAY_GET_TOP(c), ch), slot)

do_intfa_transition_loses_lexeme(c, ch) ==
  LET frame == DYNARRAY_GET_TOP(c)
      terminal == IntfaStateOf(frame.intfa, frame.intfa_state).final
      t == find_intfa_transition(frame, ch)
      lexeme == [name |-> terminal, offset |-> frame.start_offset,
                 len |-> c.s.offset.byte - frame.start_offset.byte]
  IN
  IF frame.frame_type # "INTFA" THEN Fail(c)
  ELSE IF Indeterminate(frame) THEN Undefined(c)
  ELSE IF t # 0
    THEN accept_byte(
           IF terminal # NULL
              /\ IntfaStateOf(frame.intfa,
                              IntfaStateOf(frame.intfa, frame.intfa_state).transitions[t].dest_state).final = NULL
             THEN [c EXCEPT !.munch = lexeme] ELSE c,
           ch, t, StackLen(c))
  ELSE IF terminal = NULL /\ ~ndebug THEN Fail([c EXCEPT !.stuck = TRUE])
  ELSE retry_byte(
         resume_lexing(
           process_terminal([c EXCEPT !.stuck = @ \/ terminal = NULL,
                                      !.nullterm = @ \/ terminal = NULL,
                                      !.split = IF terminal = NULL THEN @ ELSE lexeme,
                                      !.retry = IF terminal = NULL THEN NoRetry
                                                ELSE [NoRetry EXCEPT !.outcome = "dropped",
                                                                     !.at = c.s.offset.byte,
                                                                     !.ch = ch]],
                            terminal, c.s.offset, 0)),
         ch, StackLen(c))

do_intfa_transition(c, ch) ==
  LET frame == DYNARRAY_GET_TOP(c)
      terminal == IntfaStateOf(frame.intfa, frame.intfa_state).final
      t == find_intfa_transition(frame, ch)
      lexeme == [name |-> terminal, offset |-> frame.start_offset,
                 len |-> c.s.offset.byte - frame.start_offset.byte]
  IN
  IF frame.frame_type # "INTFA" THEN Fail(c)
  ELSE IF Indeterminate(frame) THEN Undefined(c)
  ELSE IF t # 0
    THEN accept_byte(
           IF terminal # NULL
              /\ IntfaStateOf(frame.intfa,
                              IntfaStateOf(frame.intfa, frame.intfa_state).transitions[t].dest_state).final = NULL
             THEN [c EXCEPT !.munch = lexeme] ELSE c,
           ch, t, StackLen(c))
  ELSE IF terminal = NULL /\ ~ndebug THEN Fail([c EXCEPT !.stuck = TRUE])
  ELSE retry_byte(
         resume_lexing(
           process_terminal([c EXCEPT !.stuck = @ \/ terminal = NULL,
                                      !.nullterm = @ \/ terminal = NULL,
                                      !.split = IF terminal = NULL THEN @ ELSE lexeme,
                                      !.retry = IF terminal = NULL THEN NoRetry
                                                ELSE [NoRetry EXCEPT !.outcome = "dropped",
                                                                     !.at = c.s.offset.byte,
                                                                     !.ch = ch]],
                            terminal, frame.start_offset, c.s.offset.byte - frame.start_offset.byte)),
         ch, StackLen(c))

\* gzl_parse's for loop over buf
RECURSIVE parse_loop(_, _, _)
parse_loop_stops_short(c, buf, i) ==
  IF i < Len(buf) /\ c.status = "OK"
    THEN parse_loop(do_intfa_transition(c, buf[i]), buf, i + 1)
    ELSE c

parse_loop(c, buf, i) ==
  IF i <= Len(buf) /\ c.status = "OK"
    THEN parse_loop(do_intfa_transition(c, buf[i]), buf, i + 1)
    ELSE c

\* lines 634-643 of gzl_parse
parse_bytes(c, buf) ==
  IF c.status = "ABORT" THEN c
  ELSE IF c.s.parse_stack_len = 0 THEN [c EXCEPT !.status = "EOF"]
  ELSE parse_loop(c, buf, 1)

gzl_parse(c, buf) ==
  IF c.s.offset.byte = 0 /\ c.s.parse_stack_len = 0
    THEN parse_bytes(
           resume_lexing(
             descend_to_gla(push_rtn_frame([c EXCEPT !.status = "OK"], 1, c.s.offset),
                            c.s.offset)),
           buf)
    ELSE parse_bytes([c EXCEPT !.status = "OK"], buf)

\* lines 654-680 of gzl_finish_parse: an open IntFA frame.  garbage is the
\* frame_type found at parse_stack[-1] if the stack is empty.  Status "FALSE"
\* stands for return false.
finish_intfa_frame(c, garbage) ==
  LET empty == c.s.parse_stack_len = 0
      frame == DYNARRAY_GET_TOP(c)
      final == IntfaStateOf(frame.intfa, frame.intfa_state).final
  IN
  IF (IF empty THEN garbage ELSE frame.frame_type) # "INTFA" THEN [c EXCEPT !.oob = @ \/ empty]
  ELSE IF empty THEN Undefined([c EXCEPT !.oob = TRUE])
  ELSE IF Indeterminate(frame) THEN Undefined(c)
  ELSE IF final # NULL /\ frame.intfa_state = 1 THEN Fail(c)
  ELSE IF final # NULL
    THEN Ok(process_terminal(c, final, frame.start_offset,
                             c.s.offset.byte - frame.start_offset.byte))
  ELSE IF frame.intfa_state = 1 THEN pop_intfa_frame(c)
  ELSE [c EXCEPT !.status = "FALSE"]

\* while(len > 0 && top is not an RTN frame) pop_frame(s)
RECURSIVE pop_non_rtn_frames(_)
pop_non_rtn_frames(c) ==
  IF c.status = "ABORT" THEN c
  ELSE IF c.s.parse_stack_len > 0 /\ DYNARRAY_GET_TOP(c).frame_type # "RTN"
    THEN pop_non_rtn_frames(pop_frame(c))
  ELSE c

\* lines 685-712 of gzl_finish_parse: an open GLA frame
finish_gla_frame(c, garbage) ==
  LET empty == c.s.parse_stack_len = 0
      gla_frame == DYNARRAY_GET_TOP(c)
  IN
  IF c.status = "ABORT" \/ c.status = "FALSE" THEN c
  ELSE IF (IF empty THEN garbage ELSE gla_frame.frame_type) # "GLA"
    THEN [c EXCEPT !.oob = @ \/ empty]
  ELSE IF empty THEN Undefined([c EXCEPT !.oob = TRUE])
  ELSE IF gla_frame.gla_state = 1 THEN pop_gla_frame(c)
  ELSE IF find_gla_transition(GlaStateOf(gla_frame.gla, gla_frame.gla_state), NULL) = 0
    THEN [c EXCEPT !.status = "FALSE"]
  ELSE pop_non_rtn_frames(
         Ok(process_terminal(push_empty_frame(c, "INTFA", c.s.offset), NULL, c.s.offset, 0)))

\* the for loop of lines 719-725 from index i (1-based): "ok", "false"
\* (return false), "assert" (rtn_transition is NULL) or "ub" (not an RTN frame)
RECURSIVE check_callers(_, _)
check_callers_unchecked(c, i) == "ok"

check_callers(c, i) ==
  IF i > c.s.parse_stack_len - 1 THEN "ok"
  ELSE IF Frame(c, i).frame_type # "RTN" THEN "ub"
  ELSE IF Frame(c, i).rtn_transition = NULL_TRANSITION THEN "assert"
  ELSE IF ~RtnStateOf(Frame(c, i).rtn,
                      RtnTransition(Frame(c, i).rtn_transition).dest_state).is_final
    THEN "false"
  ELSE check_callers(c, i + 1)

\* the while loop of lines 733-740
RECURSIVE pop_all_rtn_frames(_)
pop_all_rtn_frames(c) ==
  IF c.status = "ABORT" THEN c
  ELSE IF c.s.parse_stack_len > 0 THEN pop_all_rtn_frames(pop_rtn_frame(c))
  ELSE [c EXCEPT !.status = "TRUE"]

\* lines 717-743 of gzl_finish_parse: only RTN frames should be open
finish_rtn_frames(c) ==
  LET top == DYNARRAY_GET_TOP(c)
  IN
  IF c.status = "ABORT" \/ c.status = "FALSE" THEN c
  ELSE IF ~(c.s.parse_stack_len > 0) THEN [c EXCEPT !.status = "TRUE"]
  ELSE IF check_callers(c, 1) = "ub" THEN Undefined(c)
  ELSE IF check_callers(c, 1) = "assert" THEN Fail(c)
  ELSE IF check_callers(c, 1) = "false" THEN [c EXCEPT !.status = "FALSE"]
  ELSE IF top.frame_type # "RTN" THEN Undefined(c)
  ELSE IF ~RtnStateOf(top.rtn, top.rtn_state).is_final THEN [c EXCEPT !.status = "FALSE"]
  ELSE pop_all_rtn_frames(c)

\* line 714: the IntFA and GLA frames are dealt with
OnlyRtnFramesLeft(c) ==
  IF c.status = "ABORT" \/ c.status = "FALSE" THEN c
  ELSE [c EXCEPT !.rtn_phase =
          [entered |-> TRUE, cbn |-> Len(c.cb),
           stack |-> SubSeq(c.mem[c.s.parse_stack], 1, c.s.parse_stack_len)]]

\* gzl_finish_parse: status "TRUE" / "FALSE" is the value returned
gzl_finish_parse(c, garbage) ==
  finish_rtn_frames(
    OnlyRtnFramesLeft(
      finish_gla_frame(finish_intfa_frame([c EXCEPT !.status = "OK"], garbage), garbage)))

\* ------------------------------------------------------ parse state lifetime
\* the two parse states and the heap addresses malloc hands out
States == {1, 2}
Addresses == 1..6

\* gzl_alloc_parse_state: malloc leaves the other fields unset; the state's
\* two dynamic arrays are at addresses stack_at and tokens_at.
\* bound_grammar stands for the struct gzl_bound_grammar the state is
\* initialised with: the grammar is that of the run, the field holds the
\* callbacks that are set in it (all five, unless the client binds others)
gzl_alloc_parse_state(stack_at, tokens_at) ==
  [ bound_grammar |-> Callbacks,
    offset |-> StartOffset,
    open_terminal_offset |-> StartOffset,
    last_char_was_newline |-> FALSE,
    parse_stack |-> stack_at,
    parse_stack_len |-> INIT_DYNARRAY(0, 16).len,
    parse_stack_size |-> INIT_DYNARRAY(0, 16).size,
    token_buffer |-> tokens_at,
    token_buffer_len |-> INIT_DYNARRAY(0, 2).len,
    token_buffer_size |-> INIT_DYNARRAY(0, 2).size,
    allocated |-> TRUE ]

gzl_init_parse_state(s) ==
  [s EXCEPT !.offset = StartOffset,
            !.open_terminal_offset = StartOffset,
            !.last_char_was_newline = FALSE,
            !.parse_stack_size = RESIZE_DYNARRAY(@, 0),
            !.parse_stack_len = 0,
            !.token_buffer_size = RESIZE_DYNARRAY(@, 0),
            !.token_buffer_len = 0]

\* a parse state that was not allocated yet
Unallocated == [gzl_alloc_parse_state(0, 0) EXCEPT !.allocated = FALSE]

\* the first n elements of a block, as far as they were ever stored
Stored(block, n) == SubSeq(block, 1, IF n <= Len(block) THEN n ELSE Len(block))

\* what a parse state says, whatever the addresses of its arrays
Logical(s, m) ==
  [ offset |-> s.offset,
    open_terminal_offset |-> s.open_terminal_offset,
    last_char_was_newline |-> s.last_char_was_newline,
    stack |-> IF s.allocated THEN Stored(m[s.parse_stack], s.parse_stack_len) ELSE << >>,
    tokens |-> IF s.allocated THEN Stored(m[s.token_buffer], s.token_buffer_len) ELSE << >> ]

\* no terminal
NoTerminal == [name |-> NULL, offset |-> StartOffset, len |-> 0]

\* the record of the latest call on a parse state:
\*   op, buf, status    the operation ("parse", "finish", "parse_file", or
\*                      "dup" for the duplication itself), its buffer (the
\*                      file's bytes for "parse_file"), what it returned
\*   cb0                how many callbacks the state had received before it
\*   pre, post          what the state said before and after it
\*   prev_op, prev_status   op and status of the call before it
\*   ncalls             calls made on the state so far, counted up to 3
\*   calls              calls made on the state since the duplication
\*   all_ok             every call so far was a gzl_parse that returned OK
\*   ok_before          the same of the calls before the latest
\*   stuck              the lexer met a byte with no transition in a state
\*                      that accepts nothing
\*   nullterm           process_terminal was then handed a NULL name
\*   rejected, rejected_term   an RTN state had no transition on a terminal
\*   oob                a frame of an empty stack was read
\*   split              the lexeme the lexer last ended because the next byte
\*                      had no transition out of an accepting state
\*   munch              the lexeme the lexer had last when it took a
\*                      transition from an accepting state into one that
\*                      accepts nothing
\*   retry              what became of the byte that ended split: at and ch
\*                      are its offset and value, outcome is "dropped" if
\*                      the call ended before the byte was tried again,
\*                      "taken" or "error_char" if it was, fresh and below
\*                      are then the two frames on top of the stack and
\*                      after is offset.byte once the byte was counted
\*   rtn_phase          whether gzl_finish_parse came to its check of the
\*                      RTN frames, the frames the stack held then and the
\*                      number of callbacks delivered until then
\*   eager              one entry for each byte that took the IntFA frame
\*                      into an accepting state without transitions, in
\*                      order: the terminal handed to process_terminal, the
\*                      IntFA frame, offset.byte (at) and the number of
\*                      callbacks then, and the status and the top frame
\*                      after lines 599-611
\*   lexed              the terminals handed to process_terminal by the
\*                      lexer during the call, in order
\*   decided            one entry for each time a GLA frame came to a final
\*                      state, in order: the state's transition_offset, the
\*                      frame below the GLA frame, the token buffer and
\*                      rtn_term_offset at that moment and the number of
\*                      callbacks delivered until then
NoCall ==
  [op |-> "none", buf |-> << >>, status |-> "OK", cb0 |-> 0,
   pre |-> Logical(Unallocated, << >>), post |-> Logical(Unallocated, << >>),
   prev_op |-> "none", prev_status |-> "OK", ncalls |-> 0, calls |-> 0,
   all_ok |-> TRUE, ok_before |-> TRUE,
   stuck |-> FALSE, nullterm |-> FALSE,
   rejected |-> FALSE, rejected_term |-> NoTerminal, oob |-> FALSE,
   split |-> NoTerminal, munch |-> NoTerminal, retry |-> NoRetry,
   rtn_phase |-> NoPhase, decided |-> << >>, eager |-> << >>,
   lexed |-> << >>]

\* the engine's working view of a parse state s that received callbacks cb0
ContextOf(s, m, cb0) ==
  [s |-> s, mem |-> m, cb |-> cb0, status |-> "OK", fault |-> "none",
   entered_gla |-> FALSE, rto |-> 0, stuck |-> FALSE, nullterm |-> FALSE,
   rejected |-> FALSE, rejected_term |-> NoTerminal, oob |-> FALSE,
   split |-> NoTerminal, munch |-> NoTerminal, retry |-> NoRetry,
   rtn_phase |-> NoPhase, decided |-> << >>, eager |-> << >>,
   lexed |-> << >>]

Context(i) == ContextOf(ps[i], mem, cb[i])

\* whether an array of parse state i was freed: a call on it reads freed memory
Dangling(i) == ps[i].parse_stack \notin live \/ ps[i].token_buffer \notin live

\* what a call leaves behind
CallRecord(i, op, buf, r) ==
  [op |-> op, buf |-> buf, status |-> r.status, cb0 |-> Len(cb[i]),
   pre |-> Logical(ps[i], mem), post |-> Logical(r.s, r.mem),
   prev_op |-> last[i].op, prev_status |-> last[i].status,
   ncalls |-> IF last[i].ncalls < 3 THEN last[i].ncalls + 1 ELSE 3,
   calls |-> IF ps[2].allocated THEN last[i].calls + 1 ELSE 0,
   all_ok |-> last[i].all_ok /\ op = "parse" /\ r.status = "OK",
   ok_before |-> last[i].all_ok,
   stuck |-> r.stuck, nullterm |-> r.nullterm,
   rejected |-> r.rejected, rejected_term |-> r.rejected_term,
   oob |-> r.oob, split |-> r.split, munch |-> r.munch, retry |-> r.retry,
   rtn_phase |-> r.rtn_phase, decided |-> r.decided, eager |-> r.eager,
   lexed |-> r.lexed]

Commit(i, op, buf, r) ==
  /\ ps' = [ps EXCEPT ![i] = r.s]
  /\ mem' = r.mem
  /\ cb' = [cb EXCEPT ![i] = r.cb]
  /\ fault' = r.fault
  /\ last' = [last EXCEPT ![i] = CallRecord(i, op, buf, r)]

\* byte strings of length at most n
RECURSIVE BufsUpTo(_)
BufsUpTo(n) ==
  IF n = 0 THEN { << >> }
  ELSE LET shorter == BufsUpTo(n - 1)
       IN  shorter \cup { Append(b, ch) : b \in { x \in shorter : Len(x) = n - 1 }, ch \in BytesOf(grammar) }

CallAllowed(i) ==
  /\ fault = "none"
  /\ ps[i].allocated
  /\ Len(cb[i]) < MaxEvents
  /\ ps[2].allocated => last[i].calls < MaxAfterDup

\* no bitcode stream is open and load_grammar is not called
NoReader == stream = [open |-> FALSE] /\ image = [loaded |-> FALSE]

\* no gzl_parse_file call is followed step by step
NoDriver ==
  [pc |-> "none", file |-> << >>, pos |-> 0, is_eof |-> FALSE,
   buffer |-> [buf_len |-> 0, buf_size |-> 0, buf_offset |-> 0, bytes_parsed |-> 0]]

\* the state after gzl_alloc_parse_state and gzl_init_parse_state
Start ==
  /\ grammar \in 1..Len(Grammars)
  /\ ndebug \in BOOLEAN
  /\ overrun \in {"fault", "benign"}
  /\ mem = [a \in Addresses |-> << >>]
  /\ live = {1, 2}
  /\ ps = [i \in States |->
             IF i = 1 THEN gzl_init_parse_state(gzl_alloc_parse_state(1, 2)) ELSE Unallocated]
  /\ cb = [i \in States |-> << >>]
  /\ fault = "none"
  /\ fed = [i \in States |-> << >>]
  /\ last = [i \in States |-> NoCall]

\* a client whose callbacks never ask for cancellation
Init == Start /\ client = "never" /\ driver = NoDriver /\ NoReader

Parse(i) ==
  \E buf \in BufsUpTo(MaxBuf) :
    /\ CallAllowed(i)
    /\ Len(fed[i]) + Len(buf) <= MaxInput
    /\ ps[2].allocated => Len(buf) <= MaxBufAfterDup
    /\ Commit(i, "parse", buf,
              IF Dangling(i) THEN Undefined(Context(i)) ELSE gzl_parse(Context(i), buf))
    /\ fed' = [fed EXCEPT ![i] = @ \o buf]
    /\ UNCHANGED << grammar, ndebug, overrun, live, client, driver, stream, image >>

FinishParse(i) ==
  \E garbage \in {"RTN", "GLA", "INTFA"} :
    /\ CallAllowed(i)
    /\ Commit(i, "finish", << >>,
              IF Dangling(i) THEN Undefined(Context(i))
              ELSE gzl_finish_parse(Context(i), garbage))
    /\ UNCHANGED << grammar, ndebug, overrun, live, fed, client, driver, stream, image >>

\* ------------------------------------------------------------ gzl_parse_file
\* const int min_new_data
min_new_data == 4000

\* struct gzl_buffer after lines 791-796 (the buffer's bytes are those of the
\* file from buf_offset on and are not kept apart)
gzl_buffer_init ==
  [buf_len |-> INIT_DYNARRAY(0, 4096).len, buf_size |-> INIT_DYNARRAY(0, 4096).size,
   buf_offset |-> 0, bytes_parsed |-> 0]

\* The driver's locals d: c the engine's context (c.status is the local
\* `status`), buffer the struct gzl_buffer, pos the file position, is_eof.

\* line 810: the condition of the loop that is to make room.  Its body
\* doubles buffer->buf_size, the condition reads new_buf_size, which the body
\* never changes: once entered the loop cannot end.
needs_room(buffer) == buffer.buf_len + min_new_data > buffer.buf_size

\* lines 817-837: fread as much as fits (no read error happens) and hand the
\* new bytes to gzl_parse
read_and_parse(d, file) ==
  LET bytes_to_read == d.buffer.buf_size - d.buffer.buf_len
      left == Len(file) - d.pos
      bytes_read == IF left < bytes_to_read THEN left ELSE bytes_to_read
  IN  [d EXCEPT !.c = gzl_parse(d.c, SubSeq(file, d.pos + 1, d.pos + bytes_read)),
                !.pos = @ + bytes_read,
                !.is_eof = @ \/ bytes_read < bytes_to_read,
                !.buffer.buf_len = @ + bytes_read]

\* lines 857-865: keep the bytes from open_terminal_offset on
save_open_data(d) ==
  LET bytes_to_discard == d.c.s.open_terminal_offset.byte - d.buffer.buf_offset
      bytes_to_save == d.buffer.buf_size - bytes_to_discard
  IN  IF d.c.status = "ABORT" THEN d
      ELSE IF ~(bytes_to_discard <= d.buffer.buf_len) /\ ~ndebug THEN [d EXCEPT !.c = Fail(@)]
      ELSE IF bytes_to_discard > d.buffer.buf_size THEN [d EXCEPT !.c = Undefined(@)]
      ELSE [d EXCEPT !.buffer.buf_offset = @ + bytes_to_discard,
                     !.buffer.buf_len = bytes_to_save]

\* the do ... while loop of lines 806-866.  spin is what the loop of line 810
\* does once entered: "hang" (it runs for ever), or "ub" (the compiler took
\* the loop, which has no side effect it must keep, to terminate).
RECURSIVE file_loop(_, _, _)

\* line 866: the loop's condition
file_loop_test(d, file, spin) ==
  IF d.c.status = "OK" /\ ~d.is_eof THEN file_loop(d, file, spin) ELSE d

file_loop(d, file, spin) ==
  IF needs_room(d.buffer)
    THEN [d EXCEPT !.c = [@ EXCEPT !.status = "ABORT", !.fault = spin]]
    ELSE file_loop_test(save_open_data(read_and_parse(d, file)), file, spin)

\* lines 870-884: the status for what gzl_finish_parse returned
file_status(d, finished) ==
  IF finished.status = "ABORT" THEN finished
  ELSE IF finished.status = "TRUE"
    THEN [finished EXCEPT !.status = IF ~d.is_eof \/ d.buffer.buf_len > 0
                                       THEN "OK" ELSE "PREMATURE_EOF_ERROR"]
  ELSE [finished EXCEPT !.status = "PREMATURE_EOF_ERROR"]

\* lines 868-890
finish_file(d, garbage) ==
  IF d.c.status = "EOF" \/ (d.c.status = "OK" /\ d.is_eof)
    THEN file_status(d, gzl_finish_parse(d.c, garbage))
    ELSE d.c

gzl_parse_file(c, file, garbage, spin) ==
  finish_file(file_loop([c |-> c, buffer |-> gzl_buffer_init, pos |-> 0, is_eof |-> FALSE],
                        file, spin),
              garbage)

\* gzl_parse_file on the original, freshly initialised, for a whole file
ParseFile ==
  \E file \in BufsUpTo(MaxBuf), garbage \in {"RTN", "GLA", "INTFA"}, spin \in {"hang", "ub"} :
    /\ CallAllowed(1)
    /\ last[1].op = "none" /\ ~ps[2].allocated
    /\ Commit(1, "parse_file", file, gzl_parse_file(Context(1), file, garbage, spin))
    /\ fed' = [fed EXCEPT ![1] = IF needs_room(gzl_buffer_init) THEN @ ELSE file]
    /\ UNCHANGED << grammar, ndebug, overrun, live, client, driver, stream, image >>

\* ---- gzl_parse_file step by step: the sizing step of lines 809-816, the
\* rest of the loop's body (lines 817-866), and the end (lines 868-890).

\* the driver's locals around the engine's context c
Locals(c) ==
  [c |-> c, buffer |-> driver.buffer, pos |-> driver.pos, is_eof |-> driver.is_eof]

\* lines 809-816: with room the loop of line 810 is not entered and nothing
\* changes; without, it is entered and cannot end
FileSize ==
  \E spin \in {"hang", "ub"} :
    /\ fault = "none" /\ driver.pc = "size"
    /\ IF needs_room(driver.buffer)
         THEN fault' = spin /\ UNCHANGED driver
         ELSE driver' = [driver EXCEPT !.pc = "read"] /\ UNCHANGED fault
    /\ UNCHANGED << grammar, ndebug, overrun, mem, live, ps, cb, fed, last, client, stream, image >>

\* what lines 817-866 leave, d being the locals after them
FileReadCommit(d) ==
  /\ Commit(1, "parse", SubSeq(driver.file, driver.pos + 1, d.pos), d.c)
  /\ fed' = [fed EXCEPT ![1] = @ \o SubSeq(driver.file, driver.pos + 1, d.pos)]
  /\ driver' = [driver EXCEPT !.buffer = d.buffer, !.pos = d.pos, !.is_eof = d.is_eof,
                               !.pc = IF d.c.status = "OK" /\ ~d.is_eof
                                        THEN "size" ELSE "end"]

\* lines 817-866: read, parse, keep the open terminals' bytes
FileRead ==
  /\ fault = "none" /\ driver.pc = "read"
  /\ FileReadCommit(save_open_data(read_and_parse(Locals(Context(1)), driver.file)))
  /\ UNCHANGED << grammar, ndebug, overrun, live, client, stream, image >>

\* lines 868-890: the status gzl_parse_file returns
FileEnd ==
  \E garbage \in {"RTN", "GLA", "INTFA"} :
    /\ fault = "none" /\ driver.pc = "end"
    /\ Commit(1, "parse_file", driver.file,
              finish_file(Locals([Context(1) EXCEPT !.status = last[1].status]), garbage))
    /\ driver' = [driver EXCEPT !.pc = "returned"]
    /\ UNCHANGED << grammar, ndebug, overrun, live, fed, client, stream, image >>

\* gzl_dup_parse_state(orig): the copy's struct, the heap and the live blocks
\* it leaves.  moved_stack / moved_tokens: whether realloc, if RESIZE_DYNARRAY
\* calls it, returns a new address (freeing the old block) or the same one.
gzl_dup_parse_state(orig, moved_stack, moved_tokens) ==
  LET fresh == gzl_alloc_parse_state(3, 4)
      copy0 == orig
      stack_moves == moved_stack /\ ResizeReallocs(copy0.parse_stack_size, orig.parse_stack_len)
      copy1 == [copy0 EXCEPT !.parse_stack_size = RESIZE_DYNARRAY(@, orig.parse_stack_len),
                             !.parse_stack_len = orig.parse_stack_len,
                             !.parse_stack = IF stack_moves THEN 5 ELSE @]
      tokens_move == moved_tokens /\ ResizeReallocs(copy1.token_buffer_size, orig.token_buffer_len)
      copy2 == [copy1 EXCEPT !.token_buffer_size = RESIZE_DYNARRAY(@, orig.token_buffer_len),
                             !.token_buffer_len = orig.token_buffer_len,
                             !.token_buffer = IF tokens_move THEN 6 ELSE @]
      mem1 == [mem EXCEPT ![5] = IF stack_moves THEN mem[orig.parse_stack] ELSE @,
                          ![6] = IF tokens_move THEN mem[orig.token_buffer] ELSE @]
      live1 == (live \cup {fresh.parse_stack, fresh.token_buffer}
                     \cup (IF stack_moves THEN {5} ELSE {})
                     \cup (IF tokens_move THEN {6} ELSE {}))
               \ ((IF stack_moves THEN {orig.parse_stack} ELSE {})
                  \cup (IF tokens_move THEN {orig.token_buffer} ELSE {}))
      \* the copy loops read orig's arrays, which realloc may just have freed
      reads_freed == \/ stack_moves /\ orig.parse_stack_len > 0
                     \/ tokens_move /\ orig.token_buffer_len > 0
      \* and write the copy's, past their allocation if it is too small
      overruns == /\ overrun = "fault"
                  /\ \/ copy2.parse_stack_len > copy2.parse_stack_size
                     \/ copy2.token_buffer_len > copy2.token_buffer_size
  IN  [copy |-> copy2, mem |-> mem1, live |-> live1,
       fault |-> IF reads_freed \/ overruns THEN "ub" ELSE "none"]

DupCommit(r) ==
  /\ ps' = [ps EXCEPT ![2] = r.copy]
  /\ mem' = r.mem
  /\ live' = r.live
  /\ fault' = r.fault

Dup ==
  \E moved_stack \in BOOLEAN, moved_tokens \in BOOLEAN :
    /\ fault = "none"
    /\ ~ps[2].allocated
    /\ Len(fed[1]) <= MaxDupAt
    /\ DupCommit(gzl_dup_parse_state(ps[1], moved_stack, moved_tokens))
    /\ cb' = [cb EXCEPT ![2] = cb[1]]
    /\ fed' = [fed EXCEPT ![2] = fed[1]]
    /\ last' = [i \in States |->
                 [NoCall EXCEPT !.op = "dup", !.cb0 = Len(cb[1]),
                                !.pre = Logical(ps[1], mem), !.post = Logical(ps[1], mem),
                                !.prev_op = last[1].op, !.prev_status = last[1].status,
                                !.ncalls = last[1].ncalls, !.all_ok = last[1].all_ok]]
    /\ UNCHANGED << grammar, ndebug, overrun, client, driver, stream, image >>

Next == \E i \in States : Parse(i) \/ FinishParse(i) \/ Dup \/ ParseFile

Spec == Init /\ [][Next]_vars

\* one parse state, never duplicated
NextSingle == Parse(1) \/ FinishParse(1) \/ ParseFile

SpecSingle == Init /\ [][NextSingle]_vars

\* one parse state, with a client that wants the parse cancelled at the first
\* callback of one kind.  The callback types return void
\* (gzl_rule_callback_t, gzl_terminal_callback_t) and the engine reads nothing
\* a callback could set, so the request reaches no operation of the engine.
InitCancel ==
  Start /\ client \in {"start_rule", "terminal", "end_rule"} /\ driver = NoDriver /\ NoReader

SpecCancel == InitCancel /\ [][NextSingle]_vars

\* a second parse state, allocated and initialised on its own and bound to
\* the same grammar: gzl_alloc_parse_state gives it arrays of its own
second_state_sharing_arrays == gzl_init_parse_state(gzl_alloc_parse_state(1, 2))

second_state == gzl_init_parse_state(gzl_alloc_parse_state(3, 4))

AllocInit ==
  /\ fault = "none"
  /\ ~ps[2].allocated
  /\ Len(fed[1]) <= MaxDupAt
  /\ ps' = [ps EXCEPT ![2] = second_state]
  /\ live' = live \cup {second_state.parse_stack, second_state.token_buffer}
  /\ UNCHANGED << grammar, ndebug, overrun, mem, cb, fault, fed, last, client, driver, stream, image >>

\* two parse states of one grammar, their calls interleaved
NextShared == \E i \in States : Parse(i) \/ FinishParse(i) \/ AllocInit

SpecShared == Init /\ [][NextShared]_vars

\* the client clears callbacks of the struct gzl_bound_grammar before
\* gzl_init_parse_state stores its address (line 784)
bound_without(s, unset) == [s EXCEPT !.bound_grammar = @ \ unset]

\* what the client may leave unset: every callback, the terminal callback
\* alone, every callback but that one, or the two error callbacks
Unset ==
  { Callbacks, {"terminal"}, Callbacks \ {"terminal"}, {"error_char", "error_terminal"} }

\* two parse states of one grammar from the start: the first with every
\* callback set, the second with some unset
InitBound ==
  /\ grammar \in 1..Len(Grammars)
  /\ ndebug \in BOOLEAN
  /\ overrun = "benign"
  /\ mem = [a \in Addresses |-> << >>]
  /\ live = {1, 2, 3, 4}
  /\ \E unset \in Unset :
        ps = [i \in States |->
                IF i = 1 THEN gzl_init_parse_state(gzl_alloc_parse_state(1, 2))
                ELSE bound_without(second_state, unset)]
  /\ cb = [i \in States |-> << >>]
  /\ fault = "none"
  /\ fed = [i \in States |-> << >>]
  /\ last = [i \in States |-> NoCall]
  /\ client = "never" /\ driver = NoDriver /\ NoReader

\* what the same call made on both parse states leaves behind: each works
\* on its own arrays
CommitBoth(op, buf, r1, r2) ==
  /\ ps' = << r1.s, r2.s >>
  /\ mem' = [a \in Addresses |->
               IF a \in {ps[2].parse_stack, ps[2].token_buffer} THEN r2.mem[a] ELSE r1.mem[a]]
  /\ cb' = << r1.cb, r2.cb >>
  /\ fault' = IF r1.fault # "none" THEN r1.fault ELSE r2.fault
  /\ last' = << CallRecord(1, op, buf, r1), CallRecord(2, op, buf, r2) >>

ParseBoth ==
  \E buf \in BufsUpTo(MaxBuf) :
    /\ fault = "none"
    /\ Len(cb[1]) < MaxEvents
    /\ last[1].calls < MaxPairCalls
    /\ Len(fed[1]) + Len(buf) <= MaxInput
    /\ CommitBoth("parse", buf, gzl_parse(Context(1), buf), gzl_parse(Context(2), buf))
    /\ fed' = [i \in States |-> fed[i] \o buf]
    /\ UNCHANGED << grammar, ndebug, overrun, live, client, driver, stream, image >>

FinishBoth ==
  \E garbage \in {"RTN", "GLA", "INTFA"} :
    /\ fault = "none"
    /\ Len(cb[1]) < MaxEvents
    /\ last[1].calls < MaxPairCalls
    /\ CommitBoth("finish", << >>,
                  gzl_finish_parse(Context(1), garbage), gzl_finish_parse(Context(2), garbage))
    /\ UNCHANGED << grammar, ndebug, overrun, live, fed, client, driver, stream, image >>

NextBound == ParseBoth \/ FinishBoth

SpecBound == InitBound /\ [][NextBound]_vars

\* gzl_parse_file step by step on a fresh parse state.  The call is at the
\* top of its loop, with the buffer as lines 791-796 leave it (buf_size 0), or
\* with a buffer that has room: the sizes for which the loop of line 810 is
\* not entered, which is the only way past it.
RoomSizes == {min_new_data, min_new_data + 96}

InitFile ==
  /\ Start /\ client = "never" /\ NoReader
  /\ \E file \in BufsUpTo(MaxBuf), size \in {gzl_buffer_init.buf_size} \cup RoomSizes :
       driver = [pc |-> "size", file |-> file, pos |-> 0, is_eof |-> FALSE,
                 buffer |-> [gzl_buffer_init EXCEPT !.buf_size = size]]

NextFile == FileSize \/ FileRead \/ FileEnd

SpecFile == InitFile /\ [][NextFile]_vars

\* ------------------------------------------------------- bc_read_stream.c
\* The functions below take and return the struct bc_read_stream r, with
\*   file        the bits of the file after its magic number, in reading
\*               order (within each 32-bit word the least significant first)
\*   word        how many 32-bit words fread has delivered
\*   next_bits   the num_next_bits unread bits of the last word
\*   stream_err  the error bits, as a set of their names
\*   ret         what the function returned
\*   val         the uint64_t that read_vbr_64 returned, as the set of the
\*               positions of its set bits
\*   wide_shift  what the build makes of a 32-bit shift by 32 or more
\*   vbr         for a stream that holds one VBR value: its width and the
\*               value that was encoded
\*   junk        the value that memory the code never initialised holds
\*   fault       "none", or "ub" once behaviour is undefined
\* Arrays are sequences (C index k is element k + 1); block_metadata and
\* blockinfo are indexes into stream_stack and blockinfos (0 for NULL).
\* An entry of stream_stack for a block also keeps start, the word at which
\* the block's first record begins.

\* the number a run of bits stands for, least significant bit first.  The
\* checker's integers end at 2^31 - 1, so of the one 32-bit field, a block's
\* length, the top bit is left out; nothing in the reader looks at it.
RECURSIVE BitsValue(_)
BitsValue(bits) ==
  IF bits = << >> THEN 0
  ELSE IF Len(bits) > 31 THEN BitsValue(SubSeq(bits, 1, 31))
  ELSE Head(bits) + 2 * BitsValue(Tail(bits))

\* RESIZE_ARRAY_IF_NECESSARY: the size it leaves (it doubles at most once)
RESIZE_ARRAY_IF_NECESSARY(size, desired_size) ==
  IF size < desired_size THEN size * 2 ELSE size

\* an array of the given size after storing v at C index k: past the
\* allocation the store is undefined
Store(r, array, size, k, v) ==
  IF r.fault # "none" THEN r
  ELSE IF k >= size THEN [r EXCEPT !.fault = "ub"]
  ELSE [r EXCEPT ![array] = Put(@, k + 1, v)]

\* refill_next_bits (fread never fails but at the end of the file)
refill_next_bits(r) ==
  IF (r.word + 1) * 32 > Len(r.file)
    THEN [r EXCEPT !.stream_err = @ \cup {"PREMATURE_EOF"}, !.ret = 0 - 1]
    ELSE [r EXCEPT !.next_bits = SubSeq(r.file, r.word * 32 + 1, r.word * 32 + 32),
                   !.word = @ + 1, !.ret = 0]

\* read_fixed, second branch: low are the bits that were left, r is the
\* stream after refill_next_bits
read_fixed_refilled(r, low, bits_left) ==
  IF r.ret < 0 THEN [r EXCEPT !.ret = 0]
  ELSE [r EXCEPT !.ret = BitsValue(low \o SubSeq(r.next_bits, 1, bits_left)),
                 !.next_bits = SubSeq(@, bits_left + 1, Len(@))]

read_fixed(r, num_bits) ==
  IF Len(r.next_bits) >= num_bits
    THEN [r EXCEPT !.ret = BitsValue(SubSeq(r.next_bits, 1, num_bits)),
                   !.next_bits = SubSeq(@, num_bits + 1, Len(@))]
    ELSE read_fixed_refilled(refill_next_bits(r), r.next_bits, num_bits - Len(r.next_bits))

\* A uint64_t is kept as the set of the positions of its set bits (the
\* checker's integers end at 2^31 - 1).
\* next_bits & value_bits: the positions set among the low n bits of x
PayloadBits(x, n) == { p \in 0..(n - 1) : (x \div Pow2(p)) % 2 = 1 }

\* (next_bits & value_bits) << read_bits.  The left operand is a uint32_t,
\* so the shift is done in 32 bits: what goes past bit 31 is gone.  A shift
\* by 32 or more is undefined; r.wide_shift says what the build makes of
\* it: the count taken modulo 32 ("masked") or the result 0 ("zero").
ShiftLeft32(r, payload, read_bits) ==
  IF read_bits < 32 THEN { p + read_bits : p \in payload } \cap 0..31
  ELSE IF r.wide_shift = "masked"
    THEN { p + (read_bits % 32) : p \in payload } \cap 0..31
  ELSE {}

\* the number that the bits of val below bit 31 stand for
RECURSIVE Number(_)
Number(val) ==
  IF val \cap 0..30 = {} THEN 0
  ELSE Pow2(CHOOSE p \in val \cap 0..30 : TRUE)
         + Number(val \ {CHOOSE p \in val \cap 0..30 : TRUE})

\* read_vbr_64: the do ... while loop; r is the stream after read_fixed.
\* The value returned is r.val, and r.ret its bits below bit 31.
RECURSIVE vbr_chunk(_, _, _, _)
vbr_chunk(r, bits, val, read_bits) ==
  IF (r.ret \div Pow2(bits - 1)) % 2 = 1
    THEN vbr_chunk(read_fixed(r, bits), bits,
                   val \cup ShiftLeft32(r, PayloadBits(r.ret, bits - 1), read_bits),
                   read_bits + bits - 1)
    ELSE [r EXCEPT !.val = val \cup ShiftLeft32(r, PayloadBits(r.ret, bits - 1), read_bits),
                   !.ret = Number(val \cup ShiftLeft32(r, PayloadBits(r.ret, bits - 1), read_bits))]

read_vbr_64(r, bits) == vbr_chunk(read_fixed(r, bits), bits, {}, 0)

\* lines 378-386 of read_vbr: r is the stream after read_vbr_64
narrow_to_32(r) ==
  IF r.val \cap 32..63 # {}
    THEN [r EXCEPT !.stream_err = @ \cup {"CORRUPT_INPUT"}, !.ret = 0, !.val = {}]
    ELSE r

read_vbr(r, bits) == narrow_to_32(read_vbr_64(r, bits))

align_32_bits(r) == [r EXCEPT !.next_bits = << >>]

\* find_blockinfo from index i: the index of the entry for block_id, 0 for NULL
RECURSIVE find_blockinfo_from(_, _, _)
find_blockinfo_from(r, block_id, i) ==
  IF i > r.blockinfo_len THEN 0
  ELSE IF r.blockinfos[i].block_id = block_id THEN i
  ELSE find_blockinfo_from(r, block_id, i + 1)

find_blockinfo(r, block_id) == find_blockinfo_from(r, block_id, 1)

\* struct abbrev_operand values
Literal(v) == [type |-> "Literal", literal_value |-> v, encoding |-> 0, value |-> 0]
EncodingInfo(encoding, value) ==
  [type |-> "EncodingInfo", literal_value |-> 0, encoding |-> encoding, value |-> value]

OP_ENCODING_FIXED == 1
OP_ENCODING_VBR == 2
OP_ENCODING_ARRAY == 3
OP_ENCODING_CHAR6 == 4

\* decode_char6
decode_char6(num) ==
  IF num < 26 THEN 97 + num
  ELSE IF num < 52 THEN 65 + (num - 26)
  ELSE IF num < 62 THEN 48 + (num - 52)
  ELSE IF num < 63 THEN 46
  ELSE 95

\* read_abbrev_value
read_abbrev_value(r, op) ==
  IF op.type = "Literal" THEN [r EXCEPT !.ret = op.literal_value]
  ELSE IF op.encoding = OP_ENCODING_FIXED THEN read_fixed(r, op.value)
  ELSE IF op.encoding = OP_ENCODING_VBR THEN read_vbr_64(r, op.value)
  ELSE IF op.encoding = OP_ENCODING_CHAR6
    THEN [read_fixed(r, 6) EXCEPT !.ret = decode_char6(@)]
  ELSE [r EXCEPT !.stream_err = @ \cup {"INTERNAL"}, !.ret = 0]

\* append_value; r.ret is the value
append_value(r) ==
  [Store([r EXCEPT !.record_buf_size =
                     RESIZE_ARRAY_IF_NECESSARY(@, r.current_record_size + 1)],
         "record_buf",
         RESIZE_ARRAY_IF_NECESSARY(r.record_buf_size, r.current_record_size + 1),
         r.current_record_size, r.ret)
     EXCEPT !.current_record_size = @ + 1]

\* read_user_abbreviated_record: the inner loop over the elements of an array
RECURSIVE append_elements(_, _, _)
append_elements(r, op, left) ==
  IF left = 0 \/ r.fault # "none" THEN r
  ELSE append_elements(append_value(read_abbrev_value(r, op)), op, left - 1)

\* the loop over the operands from C index i; r is the stream after
\* read_abbrev_value where a value was read
RECURSIVE abbreviated_operands(_, _, _)

store_operand(r, ops, i) ==
  abbreviated_operands(IF i = 0 THEN [r EXCEPT !.record_id = r.ret] ELSE append_value(r),
                       ops, i + 1)

\* an array operand at C index i; r is the stream after read_vbr(stream, 6).
\* The element type is the next operand, which an abbreviation that ends
\* with its array operand does not have.
array_operand(r, ops, i) ==
  IF r.ret = 0 THEN abbreviated_operands(r, ops, i + 2)
  ELSE IF i + 2 > Len(ops) THEN [r EXCEPT !.fault = "ub"]
  ELSE abbreviated_operands(append_elements(r, ops[i + 2], r.ret), ops, i + 2)

abbreviated_operands(r, ops, i) ==
  IF i >= Len(ops) \/ r.fault # "none" THEN r
  ELSE IF ops[i + 1].type = "EncodingInfo" /\ ops[i + 1].encoding = OP_ENCODING_ARRAY
    THEN array_operand(read_vbr(r, 6), ops, i)
  ELSE store_operand(read_abbrev_value(r, ops[i + 1]), ops, i)

read_user_abbreviated_record(r, ops) ==
  abbreviated_operands([r EXCEPT !.current_record_size = 0], ops, 0)

\* read_abbrev_op: the operand read is left in r.op
abbrev_op_encoded(r) ==
  IF r.ret \in {OP_ENCODING_FIXED, OP_ENCODING_VBR}
    THEN [read_vbr(r, 5) EXCEPT !.op = EncodingInfo(r.ret, read_vbr(r, 5).ret)]
    ELSE [r EXCEPT !.op = EncodingInfo(r.ret, r.junk)]

abbrev_op_kind(r) ==
  IF r.ret # 0
    THEN [read_vbr(r, 8) EXCEPT !.op = Literal(read_vbr(r, 8).ret)]
    ELSE abbrev_op_encoded(read_fixed(r, 3))

read_abbrev_op(r) == abbrev_op_kind(read_fixed(r, 1))

\* ---- bc_rs_next_record, one case of its switch each

\* line 549: walk down to the block's own entry, counting its abbreviations
RECURSIVE enclosing_block(_)
enclosing_block(r) ==
  IF r.block_metadata < 1 THEN [r EXCEPT !.fault = "ub"]
  ELSE IF r.stream_stack[r.block_metadata].type = "Abbreviation"
    THEN enclosing_block([r EXCEPT !.num_abbrevs = @ + 1, !.block_metadata = @ - 1])
  ELSE [r EXCEPT !.abbrev_len = r.stream_stack[r.block_metadata].abbrev_len,
                 !.block_id = r.stream_stack[r.block_metadata].block_id,
                 !.blockinfo = find_blockinfo(r, r.stream_stack[r.block_metadata].block_id)]

\* case ABBREV_ID_END_BLOCK
end_block(r) ==
  IF r.block_metadata - 1 = 0
    THEN [align_32_bits(r) EXCEPT !.stream_stack_len = 0, !.record_type = "Eof"]
    ELSE enclosing_block([align_32_bits(r) EXCEPT !.record_type = "EndBlock",
                                                  !.stream_stack_len = r.block_metadata - 1,
                                                  !.num_abbrevs = 0,
                                                  !.block_metadata = @ - 1])

\* case ABBREV_ID_ENTER_SUBBLOCK, from the push on; r.ret is the block length
push_block(r) ==
  [Store([r EXCEPT !.block_len = r.ret,
                   !.record_type = "StartBlock",
                   !.stream_stack_size = RESIZE_ARRAY_IF_NECESSARY(@, r.stream_stack_len + 1)],
         "stream_stack",
         RESIZE_ARRAY_IF_NECESSARY(r.stream_stack_size, r.stream_stack_len + 1),
         r.stream_stack_len,
         [type |-> "BlockMetadata", abbrev_len |-> r.abbrev_len, block_id |-> r.block_id,
          first_operand_offset |-> 0, num_operands |-> 0, start |-> r.word])
     EXCEPT !.stream_stack_len = @ + 1,
            !.block_metadata = r.stream_stack_len + 1,
            !.blockinfo = find_blockinfo(r, r.block_id)]

\* r.ret is the new abbreviation length
block_length(r) == push_block(read_fixed(align_32_bits([r EXCEPT !.abbrev_len = r.ret]), 32))

\* r.ret is the block id
enter_subblock(r) == block_length(read_vbr([r EXCEPT !.block_id = r.ret], 4))

\* case ABBREV_ID_DEFINE_ABBREV: the loop over the operands; r is the
\* stream after read_abbrev_op for C index i - 1
RECURSIVE abbrev_ops(_, _)
abbrev_ops(r, i) ==
  IF i >= r.record_num_abbrev \/ r.fault # "none" THEN r
  ELSE abbrev_ops(Store(read_abbrev_op(r), "record_abbrev_operands",
                        r.record_size_abbrev, i, read_abbrev_op(r).op),
                  i + 1)

\* r.ret is the number of operands
define_abbrev(r) ==
  abbrev_ops([r EXCEPT !.record_type = "DefineAbbrev",
                       !.record_num_abbrev = r.ret,
                       !.record_size_abbrev = RESIZE_ARRAY_IF_NECESSARY(@, r.ret)],
             0)

\* case ABBREV_ID_UNABBREV_RECORD: the loop over the values
RECURSIVE unabbrev_values(_, _)
unabbrev_values(r, i) ==
  IF i >= r.current_record_size \/ r.fault # "none" THEN r
  ELSE unabbrev_values(Store(read_vbr(r, 6), "record_buf", r.record_buf_size, i,
                             read_vbr(r, 6).ret),
                       i + 1)

\* r.ret is the record's size
unabbrev_sized(r) ==
  unabbrev_values([r EXCEPT !.current_record_size = r.ret,
                            !.record_buf_size = RESIZE_ARRAY_IF_NECESSARY(@, r.ret + 1)],
                  0)

\* r.ret is the record's id
unabbrev_record(r) ==
  unabbrev_sized(read_vbr([r EXCEPT !.record_type = "DataRecord", !.record_id = r.ret], 6))

\* default: a user-defined abbreviation
user_abbrev(r, abbrev_id) ==
  LET user_abbrev_id == abbrev_id - 4
      num_blockinfo_abbrevs ==
        IF r.blockinfo # 0 THEN r.blockinfos[r.blockinfo].num_abbreviations ELSE 0
      block_abbrev_id == user_abbrev_id - num_blockinfo_abbrevs
      e == r.block_metadata + block_abbrev_id + 1
  IN  IF user_abbrev_id < num_blockinfo_abbrevs
        THEN read_user_abbreviated_record(
               [r EXCEPT !.record_type = "DataRecord"],
               r.blockinfos[r.blockinfo].abbreviations[user_abbrev_id + 1])
      ELSE IF block_abbrev_id < r.num_abbrevs
        THEN IF e > Len(r.stream_stack) \/ r.stream_stack[e].type # "Abbreviation"
               THEN [r EXCEPT !.record_type = "DataRecord", !.fault = "ub"]
             ELSE read_user_abbreviated_record(
                    [r EXCEPT !.record_type = "DataRecord"],
                    SubSeq(r.abbrev_operands, r.stream_stack[e].first_operand_offset + 1,
                           r.stream_stack[e].first_operand_offset
                             + r.stream_stack[e].num_operands))
      ELSE [r EXCEPT !.record_type = "DataRecord",
                     !.stream_err = @ \cup {"CORRUPT_INPUT"}]

\* the switch; r is the stream after read_fixed(stream, stream->abbrev_len)
record_of_kind(r) ==
  IF r.ret = 0 THEN end_block(r)
  ELSE IF r.ret = 1 THEN enter_subblock(read_vbr(r, 8))
  ELSE IF r.ret = 2 THEN define_abbrev(read_vbr(r, 5))
  ELSE IF r.ret = 3 THEN unabbrev_record(read_vbr(r, 6))
  ELSE user_abbrev(r, r.ret)

bc_rs_next_record(r) ==
  IF r.record_type = "Eof" \/ r.fault # "none" THEN r
  ELSE record_of_kind(read_fixed(r, r.abbrev_len))

\* ---- bc_rs_next_data_record

\* the DefineAbbrev branch: the abbreviation becomes the block's own.  The
\* two arrays are grown first; realloc may move stream_stack, into which
\* stream->block_metadata keeps pointing.
add_block_abbrev(r) ==
  IF \/ r.stream_stack_size < r.stream_stack_len + 1
     \/ RESIZE_ARRAY_IF_NECESSARY(r.abbrev_operands_size,
                                  r.abbrev_operands_len + r.record_num_abbrev + 1)
          < r.abbrev_operands_len + r.record_num_abbrev
    THEN [r EXCEPT !.fault = "ub"]
  ELSE [r EXCEPT
          !.abbrev_operands_size =
             RESIZE_ARRAY_IF_NECESSARY(@, r.abbrev_operands_len + r.record_num_abbrev + 1),
          !.stream_stack =
             Put(@, r.stream_stack_len + 1,
                 [type |-> "Abbreviation", abbrev_len |-> 0, block_id |-> 0,
                  first_operand_offset |-> r.abbrev_operands_len,
                  num_operands |-> r.record_num_abbrev, start |-> 0]),
          !.stream_stack_len = @ + 1,
          !.abbrev_operands = SubSeq(@, 1, r.abbrev_operands_len)
                                \o SubSeq(r.record_abbrev_operands, 1, r.record_num_abbrev),
          !.abbrev_operands_len = @ + r.record_num_abbrev,
          !.num_abbrevs = @ + 1]

\* find_or_create_blockinfo: the entry's index is left in r.ret
find_or_create_blockinfo(r, block_id) ==
  IF find_blockinfo(r, block_id) # 0 THEN [r EXCEPT !.ret = find_blockinfo(r, block_id)]
  ELSE [Store([r EXCEPT !.blockinfo_size = RESIZE_ARRAY_IF_NECESSARY(@, r.blockinfo_len + 1)],
              "blockinfos",
              RESIZE_ARRAY_IF_NECESSARY(r.blockinfo_size, r.blockinfo_len + 1),
              r.blockinfo_len,
              [block_id |-> block_id, num_abbreviations |-> 0, abbreviations |-> << >>])
          EXCEPT !.blockinfo_len = @ + 1, !.ret = r.blockinfo_len + 1]

\* the value at C index k of record_buf, whatever the record's size
Operand(r, k) == IF k + 1 <= Len(r.record_buf) THEN r.record_buf[k + 1] ELSE r.junk

\* a SETBID record inside BLOCKINFO
setbid(r) ==
  find_or_create_blockinfo(
    IF r.current_record_size # 1
      THEN [r EXCEPT !.stream_err = @ \cup {"CORRUPT_INPUT"}] ELSE r,
    Operand(r, 0))

\* a DefineAbbrev record inside BLOCKINFO, for the entry bi
add_blockinfo_abbrev(r, bi) ==
  [r EXCEPT !.blockinfos[bi].abbreviations =
              Append(@, SubSeq(r.record_abbrev_operands, 1, r.record_num_abbrev)),
            !.blockinfos[bi].num_abbreviations = @ + 1]

\* what bc_rs_next_data_record returns
record_info(r) ==
  [r EXCEPT !.ri = [record_type |-> r.record_type,
                    id |-> IF r.record_type = "StartBlock" THEN r.block_id
                           ELSE IF r.record_type = "DataRecord" THEN r.record_id
                           ELSE 0]]

\* the while(1) loops: r is the stream after bc_rs_next_record, bi the
\* BLOCKINFO entry being filled (0 for NULL)
RECURSIVE visible_record(_)
RECURSIVE blockinfo_records(_, _)

\* after a SETBID record: r.ret is the entry
blockinfo_entry(r) == blockinfo_records(bc_rs_next_record(r), r.ret)

blockinfo_records(r, bi) ==
  IF r.fault # "none" THEN r
  ELSE IF r.record_type = "EndBlock" THEN visible_record(bc_rs_next_record(r))
  ELSE IF r.record_type \in {"Err", "Eof"}
    THEN [r EXCEPT !.ri = [record_type |-> r.record_type, id |-> 0]]
  ELSE IF r.record_type = "DataRecord" /\ r.record_id = 1
    THEN blockinfo_entry(setbid(r))
  ELSE IF r.record_type = "DefineAbbrev"
    THEN IF bi = 0
           THEN [r EXCEPT !.stream_err = @ \cup {"CORRUPT_INPUT"}, !.fault = "ub"]
         ELSE blockinfo_records(bc_rs_next_record(add_blockinfo_abbrev(r, bi)), bi)
  ELSE blockinfo_records(bc_rs_next_record(r), bi)

visible_record(r) ==
  IF r.fault # "none" THEN r
  ELSE IF r.record_type = "DefineAbbrev"
    THEN visible_record(bc_rs_next_record(add_block_abbrev(r)))
  ELSE IF r.record_type = "StartBlock" /\ r.block_id = 0
    THEN blockinfo_records(bc_rs_next_record(r), 0)
  ELSE record_info(r)

bc_rs_next_data_record(r) == visible_record(bc_rs_next_record(r))

\* ---- the accessors

\* bc_rs_read_64.  read_outside records that record_buf was read at an
\* index that is not one of the record's.
bc_rs_read_64(r, i) ==
  IF i > r.current_record_size
    THEN [r EXCEPT !.stream_err = @ \cup {"NO_SUCH_VALUE"}, !.ret = 0]
  ELSE IF i >= r.record_buf_size THEN [r EXCEPT !.fault = "ub", !.read_outside = TRUE]
  ELSE [r EXCEPT !.ret = Operand(r, i),
                 !.read_outside = @ \/ i >= r.current_record_size]

\* GETTER_FUNC(type, bits); r is the stream after bc_rs_read_64.  It reads
\* record_buf[i] itself, whatever bc_rs_read_64 found.
getter(r, i, bits) ==
  IF r.fault # "none" THEN r
  ELSE IF i >= r.record_buf_size THEN [r EXCEPT !.fault = "ub", !.read_outside = TRUE]
  ELSE IF Operand(r, i) > Pow2(bits) - 1
    THEN [r EXCEPT !.stream_err = @ \cup {"VALUE_TOO_LARGE"}, !.ret = 0,
                   !.read_outside = @ \/ i >= r.current_record_size]
  ELSE [r EXCEPT !.read_outside = @ \/ i >= r.current_record_size]

\* bc_rs_read_8, bc_rs_read_16 (bits 8, 16) and bc_rs_read_64 (bits 64)
bc_rs_read(r, i, bits) ==
  IF bits = 64 THEN bc_rs_read_64(r, i) ELSE getter(bc_rs_read_64(r, i), i, bits)

\* NEXT_GETTER_FUNC(type, bits)
bc_rs_read_next(r, bits) ==
  bc_rs_read([r EXCEPT !.current_record_offset = @ + 1], r.current_record_offset, bits)

\* bc_rs_open_file on a file that starts with the magic number.  malloc
\* leaves current_record_offset, the array elements and the block id of the
\* outermost stream_stack entry unset.
bc_rs_open_file(file, junk) ==
  [ open |-> TRUE, file |-> file, word |-> 0, junk |-> junk, fault |-> "none",
    next_bits |-> << >>, stream_err |-> {},
    abbrev_len |-> 2, num_abbrevs |-> 0,
    stream_stack_size |-> 8, stream_stack_len |-> 1,
    stream_stack |-> << [type |-> "BlockMetadata", abbrev_len |-> 2, block_id |-> junk,
                         first_operand_offset |-> 0, num_operands |-> 0, start |-> 0] >>,
    block_metadata |-> 1, blockinfo |-> 0,
    record_type |-> "DataRecord",
    record_id |-> junk, current_record_size |-> junk, current_record_offset |-> junk,
    record_buf_size |-> 8, record_buf |-> << >>,
    block_id |-> junk, block_len |-> junk,
    record_size_abbrev |-> 8, record_num_abbrev |-> junk, record_abbrev_operands |-> << >>,
    abbrev_operands_size |-> 8, abbrev_operands_len |-> 0, abbrev_operands |-> << >>,
    blockinfo_size |-> 8, blockinfo_len |-> 0, blockinfos |-> << >>,
    ret |-> 0, val |-> {}, wide_shift |-> "masked", vbr |-> [bits |-> 0, value |-> {}],
    op |-> Literal(0), ri |-> [record_type |-> "DataRecord", id |-> 0],
    read_outside |-> FALSE, reads |-> 0,
    call |-> [op |-> "open", i |-> 0, bits |-> 0, err0 |-> {}, size0 |-> 0,
             type0 |-> "DataRecord"] ]

\* ---- bitcode files
\* What a writer of the format puts out for a list of items: a record
\* [kind |-> "record"], an abbreviation definition "define", a record that
\* uses abbreviation id abbrev followed by its operands' bits "use", and a
\* block "block" with its own items.  w is the abbreviation width in force.

RECURSIVE Bits(_, _)
Bits(v, n) == IF n = 0 THEN << >> ELSE << v % 2 >> \o Bits(v \div 2, n - 1)

RECURSIVE Vbr(_, _)
Vbr(v, n) ==
  IF v < Pow2(n - 1) THEN Bits(v, n - 1) \o << 0 >>
  ELSE Bits(v % Pow2(n - 1), n - 1) \o << 1 >> \o Vbr(v \div Pow2(n - 1), n)

RECURSIVE VbrAll(_, _)
VbrAll(values, n) ==
  IF values = << >> THEN << >> ELSE Vbr(Head(values), n) \o VbrAll(Tail(values), n)

Align(bits) == bits \o [k \in 1..((32 - (Len(bits) % 32)) % 32) |-> 0]

EmitOp(op) ==
  IF op.type = "Literal" THEN << 1 >> \o Vbr(op.literal_value, 8)
  ELSE << 0 >> \o Bits(op.encoding, 3)
         \o (IF op.encoding \in {OP_ENCODING_FIXED, OP_ENCODING_VBR}
               THEN Vbr(op.value, 5) ELSE << >>)

RECURSIVE EmitOps(_)
EmitOps(ops) == IF ops = << >> THEN << >> ELSE EmitOp(Head(ops)) \o EmitOps(Tail(ops))

RECURSIVE EmitAll(_, _, _)

\* a block: header, length in words, the items, END_BLOCK
EmitBlock(header, body) == header \o Bits(Len(body) \div 32, 32) \o body

Emit(bits, it, w) ==
  IF it.kind = "record"
    THEN bits \o Bits(3, w) \o Vbr(it.id, 6) \o Vbr(Len(it.values), 6) \o VbrAll(it.values, 6)
  ELSE IF it.kind = "define"
    THEN bits \o Bits(2, w) \o Vbr(Len(it.ops), 5) \o EmitOps(it.ops)
  ELSE IF it.kind = "use"
    THEN bits \o Bits(it.abbrev, w) \o it.payload
  ELSE EmitBlock(Align(bits \o Bits(1, w) \o Vbr(it.id, 8) \o Vbr(it.width, 4)),
                 Align(EmitAll(<< >>, it.items, it.width) \o Bits(0, it.width)))

EmitAll(bits, items, w) ==
  IF items = << >> THEN bits ELSE EmitAll(Emit(bits, Head(items), w), Tail(items), w)

Record(id, values) == [kind |-> "record", id |-> id, values |-> values]
Define(ops) == [kind |-> "define", ops |-> ops]
Use(abbrev, payload) == [kind |-> "use", abbrev |-> abbrev, payload |-> payload]
Block(id, width, items) == [kind |-> "block", id |-> id, width |-> width, items |-> items]

\* The files read: 1 a block with two records and a record of an
\* abbreviation nobody defined; 2 a BLOCKINFO block that gives block 8 an
\* abbreviation, and block 8 using it; 3 a block that defines and uses its
\* own abbreviation, with an array; 4 records and a definition outside any
\* block, then a BLOCKINFO block that defines before it names a block;
\* 5 records of 9 and of 17 values; 6 a block inside a block.
BitcodeFiles ==
  << << Block(8, 3, << Record(2, << 300, 7 >>), Record(3, << >>), Use(4, << >>),
                       Record(4, << 1 >>) >>) >>,
     << Block(0, 3, << Record(1, << 8 >>),
                       Define(<< Literal(9), EncodingInfo(OP_ENCODING_FIXED, 3) >>) >>),
        Block(8, 3, << Use(4, Bits(6, 3)), Record(2, << 5 >>) >>) >>,
     << Block(9, 3, << Define(<< Literal(7), EncodingInfo(OP_ENCODING_ARRAY, 0),
                                 EncodingInfo(OP_ENCODING_VBR, 4) >>),
                       Use(4, Vbr(2, 6) \o Vbr(11, 4) \o Vbr(3, 4)),
                       Use(5, << >>) >>) >>,
     << Record(5, << 1, 2, 3 >>), Define(<< Literal(1) >>),
        Block(0, 3, << Define(<< Literal(2) >>) >>) >>,
     << Record(6, << 1, 2, 3, 4, 5, 6, 7, 8, 9 >>),
        Record(7, << 1, 2, 3, 4, 5, 6, 7, 8, 9, 10, 11, 12, 13, 14, 15, 16, 17 >>) >>,
     << Block(8, 3, << Define(<< Literal(1), Literal(2) >>),
                       Block(9, 3, << Use(4, << >>), Record(2, << 70000 >>) >>),
                       Use(4, << >>) >>) >> >>

\* a file and what is left of it when it was cut short
Truncations(bits) == { SubSeq(bits, 1, 32 * k) : k \in 0..(Len(bits) \div 32) }

\* what unset memory may hold
Junk == {0, 5}

\* the parser is not in use while a file is read
Idle ==
  /\ Start /\ grammar = 1 /\ ndebug = FALSE /\ overrun = "benign"
  /\ client = "never" /\ driver = NoDriver

InitReader ==
  /\ Idle /\ image = [loaded |-> FALSE]
  /\ \E f \in 1..Len(BitcodeFiles), junk \in Junk :
       \E file \in Truncations(Align(EmitAll(<< >>, BitcodeFiles[f], 2))) :
         stream = bc_rs_open_file(file, junk)

Reading == stream.open /\ stream.fault = "none"

Called(r, op, i, bits) ==
  [op |-> op, i |-> i, bits |-> bits, err0 |-> r.stream_err, size0 |-> r.current_record_size,
   type0 |-> r.record_type]

NextDataRecord ==
  /\ Reading
  /\ stream' = [bc_rs_next_data_record(stream)
                  EXCEPT !.call = Called(stream, "next", 0, 0), !.reads = 0]
  /\ UNCHANGED << grammar, ndebug, overrun, mem, live, ps, cb, fault, fed, last, client,
                  driver, image >>

\* one of bc_rs_read_8, _16, _64 on the record just returned
ReadOperand ==
  \E i \in 0..MaxIndex, bits \in {8, 16, 64} :
    /\ Reading /\ stream.call.op # "open" /\ stream.ri.record_type = "DataRecord"
    /\ stream.reads < MaxReads
    /\ stream' = [bc_rs_read([stream EXCEPT !.read_outside = FALSE], i, bits)
                    EXCEPT !.call = Called(stream, "read", i, bits), !.reads = @ + 1]
    /\ UNCHANGED << grammar, ndebug, overrun, mem, live, ps, cb, fault, fed, last, client,
                    driver, image >>

\* one of bc_rs_read_next_8, _16, _64
ReadNext ==
  \E bits \in {8, 16, 64} :
    /\ Reading /\ stream.call.op # "open" /\ stream.ri.record_type = "DataRecord"
    /\ stream.reads < MaxReads
    /\ stream' = [bc_rs_read_next([stream EXCEPT !.read_outside = FALSE], bits)
                    EXCEPT !.call = Called(stream, "read_next", stream.current_record_offset, bits),
                           !.reads = @ + 1]
    /\ UNCHANGED << grammar, ndebug, overrun, mem, live, ps, cb, fault, fed, last, client,
                    driver, image >>

NextReader == NextDataRecord \/ ReadOperand \/ ReadNext

SpecReader == InitReader /\ [][NextReader]_vars

\* ---- one VBR value
\* the groups a writer puts out for the value with the set bits value, in
\* groups of bits bits: bits - 1 bits of the value, least significant
\* first, and a bit that says whether more follow
RECURSIVE EncodeVbr(_, _, _)
EncodeVbr(value, bits, from) ==
  [p \in 1..(bits - 1) |-> IF (from + p - 1) \in value THEN 1 ELSE 0]
    \o (IF \E q \in value : q >= from + bits - 1
          THEN << 1 >> \o EncodeVbr(value, bits, from + bits - 1)
          ELSE << 0 >>)

\* the widths and the values read: no bit, one bit or two bits set, below
\* and above bit 31
VbrWidths == {2, 4, 6, 8}
VbrPositions == {0, 5, 6, 27, 28, 31, 32, 34, 63}
VbrValues == {{}} \cup { {a, b} : a \in VbrPositions, b \in VbrPositions }

InitVbr ==
  /\ Idle /\ image = [loaded |-> FALSE]
  /\ \E bits \in VbrWidths, value \in VbrValues, wide_shift \in {"masked", "zero"} :
       stream = [bc_rs_open_file(Align(EncodeVbr(value, bits, 0)), 0)
                   EXCEPT !.wide_shift = wide_shift,
                          !.vbr = [bits |-> bits, value |-> value],
                          !.call.op = "encoded"]

ReadVbr64 ==
  /\ Reading /\ stream.call.op = "encoded"
  /\ stream' = [read_vbr_64(stream, stream.vbr.bits) EXCEPT !.call.op = "read_vbr_64"]
  /\ UNCHANGED << grammar, ndebug, overrun, mem, live, ps, cb, fault, fed, last, client,
                  driver, image >>

ReadVbr ==
  /\ Reading /\ stream.call.op = "encoded"
  /\ stream' = [read_vbr(stream, stream.vbr.bits) EXCEPT !.call.op = "read_vbr"]
  /\ UNCHANGED << grammar, ndebug, overrun, mem, live, ps, cb, fault, fed, last, client,
                  driver, image >>

NextVbr == ReadVbr64 \/ ReadVbr

SpecVbr == InitVbr /\ [][NextVbr]_vars

\* ------------------------------------------------------- load_grammar.c
\* bc_rs_skip_block and bc_rs_rewind_block are declared in bc_read_stream.h
\* and called by the loader, but no file of the runtime defines them.  They
\* are taken at their word: skipping leaves the reader behind the END_BLOCK
\* of the block it just entered, rewinding puts it back at the first record
\* of the block it just left (whose stream_stack entry is still in place).
bc_rs_skip_block(r) ==
  IF r.fault # "none" THEN r
  ELSE end_block([r EXCEPT !.word = r.stream_stack[r.block_metadata].start + r.block_len])

bc_rs_rewind_block(r) ==
  IF r.fault # "none" THEN r
  ELSE [r EXCEPT !.word = r.stream_stack[r.stream_stack_len + 1].start,
                 !.next_bits = << >>,
                 !.block_metadata = r.stream_stack_len + 1,
                 !.stream_stack_len = @ + 1,
                 !.abbrev_len = r.stream_stack[r.stream_stack_len + 1].abbrev_len,
                 !.block_id = r.stream_stack[r.stream_stack_len + 1].block_id,
                 !.blockinfo = find_blockinfo(r, r.stream_stack[r.stream_stack_len + 1].block_id),
                 !.record_type = "StartBlock"]

BC_INTFAS == 8
BC_INTFA == 9
BC_STRINGS == 10
BC_RTNS == 11
BC_RTN == 12
BC_GLAS == 13
BC_GLA == 14
BC_STRING == 0

\* The loader l: its stream s, the struct grammar g (of which strings is
\* "NULL", "unset" or "loaded", and the tables are kept as their counts), n
\* the count of the pass under way, and status: "running", "exit" once
\* exit(1) was called, "ub" once the reader's behaviour is undefined.
Running(l) == l.status = "running"

\* unexpected(), and a reader that went wrong
exit(l) == [l EXCEPT !.status = IF l.s.fault # "none" THEN "ub" ELSE "exit"]

\* one bc_rs_next_data_record made by a loop of the loader
NextOf(l) == [l EXCEPT !.s = bc_rs_next_data_record(l.s)]

\* the loops of load_strings, load_intfa, load_gla and load_rtn: data records
\* until EndBlock; l is the loader after bc_rs_next_data_record.  ids are the
\* record ids the loop accepts.
RECURSIVE records(_, _)
records(l, ids) ==
  IF l.s.fault # "none" THEN exit(l)
  ELSE IF l.s.ri.record_type = "DataRecord" /\ l.s.ri.id \in ids
    THEN records(NextOf([l EXCEPT !.n = @ + 1]), ids)
  ELSE IF l.s.ri.record_type = "EndBlock" THEN l
  ELSE exit(l)

\* a loop from its start
pass(l, ids) == IF Running(l) THEN records(NextOf([l EXCEPT !.n = 0]), ids) ELSE l

rewind(l) == IF Running(l) THEN [l EXCEPT !.s = bc_rs_rewind_block(l.s)] ELSE l

AnyId == 0..63

\* load_strings
load_strings(l) ==
  [pass(rewind(pass(l, AnyId)), {BC_STRING}) EXCEPT !.g.strings = "loaded"]

\* load_intfa, load_gla, load_rtn: count, rewind, fill
load_entity(l) == pass(rewind(pass(l, AnyId)), AnyId)

\* the first loop of load_intfas, load_glas, load_rtns: count and skip
RECURSIVE count_blocks(_, _)
count_blocks(l, id) ==
  IF l.s.fault # "none" THEN exit(l)
  ELSE IF l.s.ri = [record_type |-> "StartBlock", id |-> id]
    THEN count_blocks(NextOf([l EXCEPT !.n = @ + 1, !.s = bc_rs_skip_block(l.s)]), id)
  ELSE IF l.s.ri.record_type = "EndBlock" THEN l
  ELSE exit(l)

\* the second loop: load each
RECURSIVE load_blocks(_, _)
load_blocks(l, id) ==
  IF ~Running(l) THEN l
  ELSE IF l.s.fault # "none" THEN exit(l)
  ELSE IF l.s.ri = [record_type |-> "StartBlock", id |-> id]
    THEN load_blocks(NextOf(load_entity(l)), id)
  ELSE IF l.s.ri.record_type = "EndBlock" THEN l
  ELSE exit(l)

\* r is the loader after the first loop: its n is the number of blocks
counted(l, id, field) ==
  IF ~Running(l) THEN [l EXCEPT !.g[field] = l.n]
  ELSE load_blocks(NextOf(rewind([l EXCEPT !.g[field] = l.n])), id)

\* load_intfas, load_glas, load_rtns
load_table(l, id, field) == counted(count_blocks(NextOf([l EXCEPT !.n = 0]), id), id, field)

\* load_grammar: the while(1) loop; l is the loader after
\* bc_rs_next_data_record
RECURSIVE top_records(_)

top_block(l) ==
  IF l.s.ri.id = BC_STRINGS THEN load_strings(l)
  ELSE IF l.s.ri.id = BC_INTFAS THEN load_table(l, BC_INTFA, "num_intfas")
  ELSE IF l.s.ri.id = BC_GLAS THEN load_table(l, BC_GLA, "num_glas")
  ELSE IF l.s.ri.id = BC_RTNS THEN load_table(l, BC_RTN, "num_rtns")
  ELSE [l EXCEPT !.s = bc_rs_skip_block(l.s)]

\* a block was handled
top_next(l, id) ==
  IF Running(l)
    THEN top_records(NextOf([l EXCEPT !.seen = @ \cup {id}]))
    ELSE [l EXCEPT !.seen = @ \cup {id}]

top_records(l) ==
  IF l.s.fault # "none" THEN exit(l)
  ELSE IF l.s.ri.record_type = "StartBlock" THEN top_next(top_block(l), l.s.ri.id)
  ELSE IF l.s.ri.record_type = "Eof"
    THEN IF l.g.strings = "NULL" \/ l.g.num_intfas = 0 \/ l.g.num_rtns = 0
           THEN [l EXCEPT !.status = "exit"]
           ELSE [l EXCEPT !.status = "returned"]
  ELSE top_records(NextOf(l))

\* malloc leaves *g unset
load_grammar(r) ==
  top_records(NextOf([s |-> r, status |-> "running", n |-> 0, seen |-> {},
                      g |-> [strings |-> IF r.junk = 0 THEN "NULL" ELSE "unset",
                             num_intfas |-> r.junk, num_glas |-> r.junk,
                             num_rtns |-> r.junk]]))

\* The grammar files read: 1 complete; 2 without its RTNS block; 3 empty;
\* 4 complete, with a block of an unknown kind and GLAs; 5 an INTFAS block
\* that holds no IntFA; 6 a field outside any record in its STRINGS block.
GrammarFiles ==
  << << Block(BC_STRINGS, 3, << Record(BC_STRING, << 120 >>) >>),
        Block(BC_INTFAS, 3, << Block(BC_INTFA, 3, << Record(0, << 1 >>), Record(2, << 120, 1 >>),
                                                     Record(1, << 0, 0 >>) >>) >>),
        Block(BC_RTNS, 3, << Block(BC_RTN, 3, << Record(0, << 0, 1 >>) >>) >>) >>,
     << Block(BC_STRINGS, 3, << Record(BC_STRING, << 120 >>) >>),
        Block(BC_INTFAS, 3, << Block(BC_INTFA, 3, << Record(1, << 0, 0 >>) >>) >>) >>,
     << >>,
     << Block(20, 3, << Record(1, << 2 >>) >>),
        Block(BC_STRINGS, 3, << Record(BC_STRING, << 120 >>), Record(BC_STRING, << 121 >>) >>),
        Block(BC_INTFAS, 3, << Block(BC_INTFA, 3, << Record(1, << 0, 0 >>) >>),
                               Block(BC_INTFA, 3, << Record(1, << 0, 1 >>) >>) >>),
        Block(BC_GLAS, 3, << Block(BC_GLA, 3, << Record(1, << 0 >>) >>) >>),
        Block(BC_RTNS, 3, << Block(BC_RTN, 3, << Record(0, << 0, 1 >>) >>) >>) >>,
     << Block(BC_STRINGS, 3, << Record(BC_STRING, << 120 >>) >>),
        Block(BC_INTFAS, 3, << >>),
        Block(BC_RTNS, 3, << Block(BC_RTN, 3, << Record(0, << 0, 1 >>) >>) >>) >>,
     << Block(BC_STRINGS, 3, << Record(BC_STRING, << 120 >>), Use(4, << >>) >>),
        Block(BC_INTFAS, 3, << Block(BC_INTFA, 3, << Record(1, << 0, 0 >>) >>) >>),
        Block(BC_RTNS, 3, << Block(BC_RTN, 3, << Record(0, << 0, 1 >>) >>) >>) >> >>

InitLoader ==
  /\ Idle /\ image = [loaded |-> FALSE]
  /\ \E f \in 1..Len(GrammarFiles), junk \in Junk :
       \E file \in Truncations(Align(EmitAll(<< >>, GrammarFiles[f], 2))) :
         stream = bc_rs_open_file(file, junk)

\* load_grammar on a stream just opened
Loaded(l) ==
  /\ stream' = l.s
  /\ image' = [loaded |-> TRUE, status |-> l.status, g |-> l.g, seen |-> l.seen]

LoadGrammar ==
  /\ stream.open /\ stream.call.op = "open" /\ ~image.loaded
  /\ Loaded(load_grammar(stream))
  /\ UNCHANGED << grammar, ndebug, overrun, mem, live, ps, cb, fault, fed, last, client,
                  driver >>

\* bc_rs_close_stream, as the callers of the loader do next
CloseStream ==
  /\ stream.open /\ image.loaded /\ image.status = "returned"
  /\ stream' = [open |-> FALSE]
  /\ UNCHANGED << grammar, ndebug, overrun, mem, live, ps, cb, fault, fed, last, client,
                  driver, image >>

NextLoader == LoadGrammar \/ CloseStream

SpecLoader == InitLoader /\ [][NextLoader]_vars

\* ------------------------------------------------------------------ claims
\* a freshly initialised parse state, as Init makes the original
Fresh == ContextOf(gzl_init_parse_state(gzl_alloc_parse_state(1, 2)),
                   [a \in Addresses |-> << >>], << >>)

\* the callbacks state i received in its latest call
CallbacksOfCall(i) == SubSeq(cb[i], last[i].cb0 + 1, Len(cb[i]))

\* the original's run so far ended as the run `one` of a single call did
SameRun(one) ==
  /\ cb[1] = one.cb
  /\ last[1].status = one.status
  /\ fault = one.fault
  /\ Logical(ps[1], mem) = Logical(one.s, one.mem)

\* C1: resumability.  After parse(A) then parse(B) on a fresh parse state,
\* the callbacks delivered, the status returned and the parse state are those
\* of one call parse(A ++ B) on a fresh state.
C1_Resumability ==
  (last[1].ncalls = 2 /\ last[1].op = "parse" /\ last[1].prev_op = "parse")
    => SameRun(gzl_parse(Fresh, fed[1]))

\* C2: lexical error reporting.  When gzl_parse meets a byte with no
\* transition in an IntFA state that accepts nothing, it fires error_char and
\* returns ERROR, fails no assertion and processes no terminal without a name.
C2_LexicalErrorReported ==
  \A i \in States :
    (last[i].op = "parse" /\ last[i].stuck)
      => /\ fault = "none"
         /\ last[i].status = "ERROR"
         /\ ~last[i].nullterm
         /\ Len(cb[i]) > last[i].cb0
         /\ cb[i][Len(cb[i])].kind = "error_char"

\* C3: syntactic error reporting.  When an RTN state has no transition on
\* the terminal at the RTN cursor, gzl_parse fires error_terminal exactly
\* once, returns ERROR, and delivers no callback after it in that call.
C3_SyntacticErrorReported ==
  \A i \in States :
    (last[i].op = "parse" /\ last[i].rejected)
      => /\ fault = "none"
         /\ last[i].status = "ERROR"
         /\ Len(cb[i]) > last[i].cb0
         /\ cb[i][Len(cb[i])].kind = "error_terminal"
         /\ Cardinality({k \in (last[i].cb0 + 1)..Len(cb[i]) :
                           cb[i][k].kind = "error_terminal"}) = 1

\* a gzl_parse call that consumed a byte, delivered callbacks, then rejected
\* a terminal
C3_Witness ==
  /\ last[1].op = "parse"
  /\ last[1].rejected
  /\ last[1].status = "ERROR"
  /\ Len(cb[1]) > last[1].cb0 + 1
  /\ ps[1].offset.byte > last[1].pre.offset.byte

\* C4: the state after ERROR.  When gzl_parse returns ERROR the top frame is
\* an IntFA frame, and after a rejected terminal the token buffer does not
\* hold that terminal and offset.byte is where it started.
C4_StateAfterError ==
  \A i \in States :
    (last[i].op = "parse" /\ last[i].status = "ERROR" /\ fault = "none")
      => /\ last[i].post.stack # << >>
         /\ last[i].post.stack[Len(last[i].post.stack)].frame_type = "INTFA"
         /\ last[i].rejected =>
              /\ \A k \in 1..Len(last[i].post.tokens) :
                   last[i].post.tokens[k] # last[i].rejected_term
              /\ last[i].post.offset.byte = last[i].rejected_term.offset.byte

\* C5: stack depth limit.  The parse stack never holds more than
\* max_stack_depth frames.
C5_StackDepthLimit ==
  \A i \in States : ps[i].parse_stack_len <= max_stack_depth

\* C6: lookahead limit.  The token buffer never holds more than
\* max_lookahead terminals.
C6_LookaheadLimit ==
  \A i \in States : ps[i].token_buffer_len <= max_lookahead

\* C7: hard EOF is absorbing.  A gzl_parse call that follows one that
\* returned EOF returns EOF, delivers no callback and leaves the offsets, the
\* stack and the token buffer as they were.
C7_HardEofAbsorbing ==
  \A i \in States :
    (last[i].op = "parse" /\ last[i].prev_op = "parse" /\ last[i].prev_status = "EOF")
      => /\ fault = "none"
         /\ last[i].status = "EOF"
         /\ Len(cb[i]) = last[i].cb0
         /\ last[i].post = last[i].pre

\* C8: gzl_finish_parse after hard EOF.  Called after a gzl_parse that
\* returned EOF, gzl_finish_parse returns true and delivers no callback; then,
\* and when its own terminal processing empties the stack, it never reads a
\* frame of the empty stack.
C8_FinishAfterHardEof ==
  \A i \in States :
    last[i].op = "finish"
      => /\ (last[i].prev_op = "parse" /\ last[i].prev_status = "EOF")
              => /\ fault = "none"
                 /\ ~last[i].oob
                 /\ last[i].status = "TRUE"
                 /\ Len(cb[i]) = last[i].cb0
         /\ last[i].pre.stack # << >> => ~last[i].oob

\* C9: duplicate isolation.  After gzl_dup_parse_state the two parse states
\* hold different arrays, the duplication itself is well defined, and what a
\* state says changes only through calls made on that state.
C9_DuplicateIsolation ==
  ps[2].allocated
    => /\ {ps[1].parse_stack, ps[1].token_buffer}
            \cap {ps[2].parse_stack, ps[2].token_buffer} = {}
       /\ (last[1].op = "dup" /\ last[2].op = "dup") => fault = "none"
       /\ \A i \in States : Logical(ps[i], mem) = last[i].post

\* C10: duplicate equivalence.  When the original and its duplicate were each
\* fed the same bytes in one gzl_parse call, the two calls delivered the same
\* callbacks and returned the same status, and the two states say the same.
C10_DuplicateEquivalence ==
  (/\ ps[2].allocated
   /\ \A i \in States : last[i].op = "parse" /\ last[i].calls = 1
   /\ last[1].buf = last[2].buf)
    => /\ fault = "none"
       /\ last[1].status = last[2].status
       /\ CallbacksOfCall(1) = CallbacksOfCall(2)
       /\ Logical(ps[1], mem) = Logical(ps[2], mem)
\* C11: watermark invariant.  Between calls and at every callback,
\* open_terminal_offset.byte <= the offset of the first token buffer entry (if
\* any) <= offset.byte; and a terminal delivered to the terminal callback
\* starts at or after the open_terminal_offset the state had when the call
\* that delivers it began.
C11_Watermark ==
  \A i \in States :
    /\ (ps[i].allocated /\ fault = "none")
         => /\ ps[i].open_terminal_offset.byte <= ps[i].offset.byte
            /\ \A k \in 1..Len(Logical(ps[i], mem).tokens) :
                 /\ ps[i].open_terminal_offset.byte <= Logical(ps[i], mem).tokens[k].offset.byte
                 /\ Logical(ps[i], mem).tokens[k].offset.byte <= ps[i].offset.byte
    /\ \A k \in 1..Len(cb[i]) :
         cb[i][k].open <= cb[i][k].first /\ cb[i][k].first <= cb[i][k].byte
    /\ \A k \in (last[i].cb0 + 1)..Len(cb[i]) :
         cb[i][k].kind = "terminal"
           => cb[i][k].arg.offset.byte >= last[i].pre.open_terminal_offset.byte

\* a call delivered a terminal that was lexed in an earlier call and waited
\* in the token buffer
C11_Witness ==
  /\ last[1].op = "parse" /\ fault = "none"
  /\ last[1].pre.tokens # << >>
  /\ \E k \in (last[1].cb0 + 1)..Len(cb[1]) :
       /\ cb[1][k].kind = "terminal"
       /\ cb[1][k].arg.offset.byte < last[1].pre.offset.byte
       /\ cb[1][k].arg.offset.byte >= last[1].pre.open_terminal_offset.byte

\* what OpenRules answers for a sequence of events that is not nested
Unbalanced == << [rtn |-> "unbalanced", depth |-> 0] >>

\* the rules left open by the events evs[k..], read after the rules in open
\* (innermost last); Unbalanced if an end_rule does not close the
\* innermost open rule at its depth, or a terminal is delivered outside the
\* innermost open rule
RECURSIVE OpenRules(_, _, _)
OpenRules(evs, k, open) ==
  IF k > Len(evs) THEN open
  ELSE IF evs[k].kind = "start_rule"
    THEN OpenRules(evs, k + 1, Append(open, [rtn |-> evs[k].arg.rtn, depth |-> evs[k].depth]))
  ELSE IF evs[k].kind = "end_rule"
    THEN IF open # << >> /\ open[Len(open)] = [rtn |-> evs[k].arg.rtn, depth |-> evs[k].depth]
           THEN OpenRules(evs, k + 1, SubSeq(open, 1, Len(open) - 1))
           ELSE Unbalanced
  ELSE IF evs[k].kind = "terminal"
    THEN IF open # << >> /\ open[Len(open)].depth = evs[k].depth
           THEN OpenRules(evs, k + 1, open)
           ELSE Unbalanced
  ELSE OpenRules(evs, k + 1, open)

\* the parse of state i has ended: gzl_parse returned EOF or gzl_finish_parse true
Ended(i) ==
  /\ fault = "none"
  /\ \/ last[i].op = "parse" /\ last[i].status = "EOF"
     \/ last[i].op = "finish" /\ last[i].status = "TRUE"

\* C12: stack discipline.  When a parse has ended with EOF or with
\* gzl_finish_parse returning true, the start_rule and end_rule callbacks it
\* delivered are balanced, each end_rule closing the innermost open rule at
\* the stack depth of its start_rule, and every terminal callback lies inside
\* the rule whose frame is on top when it fires.
C12_StackDiscipline ==
  \A i \in States : Ended(i) => OpenRules(cb[i], 1, << >>) = << >>

\* an ended parse that delivered a terminal inside a nested rule
C12_Witness ==
  /\ Ended(1)
  /\ \E k \in 1..Len(cb[1]) : cb[1][k].kind = "terminal" /\ cb[1][k].depth >= 2
  /\ \E k \in 1..Len(cb[1]) : cb[1][k].kind = "end_rule" /\ cb[1][k].depth >= 2

\* C13: callback source order.  The terminals delivered to the terminal
\* callback have strictly increasing offset.byte (so none is delivered twice),
\* and at every point of a run each terminal and each end_rule delivered so
\* far lies inside the rule that the latest unmatched start_rule opened.
C13_SourceOrder ==
  \A i \in States :
    /\ \A j \in 1..Len(cb[i]), k \in 1..Len(cb[i]) :
         (j < k /\ cb[i][j].kind = "terminal" /\ cb[i][k].kind = "terminal")
           => cb[i][j].arg.offset.byte < cb[i][k].arg.offset.byte
    /\ OpenRules(cb[i], 1, << >>) # Unbalanced

\* a run that delivered two terminals, one of them out of the token buffer
\* after lookahead, with a rule still open
C13_Witness ==
  /\ fault = "none"
  /\ \E j \in 1..Len(cb[1]), k \in 1..Len(cb[1]) :
       /\ j < k /\ cb[1][j].kind = "terminal" /\ cb[1][k].kind = "terminal"
       /\ cb[1][j].arg.offset.byte + cb[1][j].arg.len < cb[1][j].byte
  /\ OpenRules(cb[1], 1, << >>) # << >>

\* C14: byte accounting.  While every call on a parse state was a gzl_parse
\* that returned OK, offset.byte is the number of bytes those calls were
\* given; and no call leaves offset.byte smaller than it found it.
C14_ByteAccounting ==
  \A i \in States :
    /\ (last[i].all_ok /\ fault = "none") => ps[i].offset.byte = Len(fed[i])
    /\ last[i].post.offset.byte >= last[i].pre.offset.byte

\* three or more bytes were consumed by two or more calls that returned OK
C14_Witness ==
  /\ last[1].all_ok /\ fault = "none"
  /\ last[1].ncalls >= 2 /\ last[1].buf # << >> /\ last[1].pre.offset.byte > 0
  /\ ps[1].offset.byte >= 3

RECURSIVE ReferencePosition(_, _, _, _)
ReferencePosition(bytes, k, pos, pending) ==
  IF k > Len(bytes) THEN pos
  ELSE IF bytes[k] = 10 \/ bytes[k] = 13
    THEN IF pending # 0 /\ pending # bytes[k]
           THEN ReferencePosition(bytes, k + 1, pos, 0)
           ELSE ReferencePosition(bytes, k + 1, [line |-> pos.line + 1, column |-> 1], bytes[k])
  ELSE ReferencePosition(bytes, k + 1, [pos EXCEPT !.column = @ + 1], 0)

\* C16: line/column tracking.  After gzl_parse calls that accepted every
\* byte, offset.line and offset.column are those of the reference
\* computation: LF or CR starts a new line unless it completes a CR-LF or
\* LF-CR pair, LF-LF and CR-CR are two line breaks, any other byte advances
\* the column.
C16_LineColumn ==
  \A i \in States :
    (last[i].all_ok /\ fault = "none")
      => [line |-> ps[i].offset.line, column |-> ps[i].offset.column]
           = ReferencePosition(fed[i], 1, [line |-> 1, column |-> 1], 0)

\* the latest call on state i handed the lexeme tok to the parser: it was
\* delivered to a callback of the call or waits in the token buffer
Emitted(i, tok) ==
  \/ \E k \in (last[i].cb0 + 1)..Len(cb[i]) :
       cb[i][k].kind \in {"terminal", "error_terminal"} /\ cb[i][k].arg = tok
  \/ \E k \in 1..Len(last[i].post.tokens) : last[i].post.tokens[k] = tok

C18_IgnoredTerminalsDiscarded ==
  \A i \in States :
    (last[i].op = "parse" /\ fault = "none" /\ last[i].rejected
       /\ last[i].post.stack # << >>
       /\ last[i].post.stack[Len(last[i].post.stack)].frame_type = "RTN")
      => last[i].rejected_term.name
           \notin IgnoreList(grammar, last[i].post.stack[Len(last[i].post.stack)].rtn)

\* C19: cancellation.  When a callback of a gzl_parse call asks for
\* cancellation, the call delivers no further callback and returns CANCELLED.
C19_Cancellation ==
  \A i \in States : \A k \in (last[i].cb0 + 1)..Len(cb[i]) :
    (last[i].op = "parse" /\ fault = "none" /\ cb[i][k].kind = client)
      => last[i].status = "CANCELLED" /\ k = Len(cb[i])

\* what gzl_parse_file is to return for a file whose bytes gzl_parse took
\* with the result p: nothing is said unless that result is OK
FileStatusFor(p, finished) ==
  p.status = "OK"
    => /\ fault = "none"
       /\ last[1].status = IF finished.status = "TRUE" THEN "OK" ELSE "PREMATURE_EOF_ERROR"

FileStatusAfter(p) == FileStatusFor(p, gzl_finish_parse(p, "RTN"))

\* C20: gzl_parse_file status mapping.  For a file whose bytes gzl_parse
\* accepts with OK, gzl_parse_file returns OK if gzl_finish_parse then returns
\* true and PREMATURE_EOF_ERROR if it returns false.
C20_ParseFileStatus ==
  last[1].op = "parse_file" => FileStatusAfter(gzl_parse(Fresh, last[1].buf))

C22_ParseFileTerminates ==
  last[1].op = "parse_file" => fault # "hang"

\* parse state i as the engine finds it when nothing but i exists
Alone(i) ==
  ContextOf(ps[i],
            [a \in Addresses |->
               IF a \in {ps[i].parse_stack, ps[i].token_buffer} THEN mem[a] ELSE << >>],
            cb[i])

\* the step left parse state i as the call with the result r leaves it
SameAsAlone(i, r) ==
  /\ ps'[i] = r.s
  /\ cb'[i] = r.cb
  /\ last'[i].status = r.status
  /\ fault' = r.fault
  /\ mem'[r.s.parse_stack] = r.mem[r.s.parse_stack]
  /\ mem'[r.s.token_buffer] = r.mem[r.s.token_buffer]

\* the step left parse state j as it was
Untouched(j) ==
  /\ ps'[j] = ps[j] /\ cb'[j] = cb[j] /\ last'[j] = last[j] /\ fed'[j] = fed[j]
  /\ ps[j].allocated => /\ mem'[ps[j].parse_stack] = mem[ps[j].parse_stack]
                         /\ mem'[ps[j].token_buffer] = mem[ps[j].token_buffer]

C24_ErrorTerminalNamesRejected ==
  \A i \in States :
    (last[i].op = "parse" /\ last[i].rejected /\ fault = "none")
      => /\ Len(cb[i]) > last[i].cb0
         /\ cb[i][Len(cb[i])].kind = "error_terminal"
         /\ cb[i][Len(cb[i])].arg.name = last[i].rejected_term.name
         /\ cb[i][Len(cb[i])].arg.offset = last[i].rejected_term.offset

\* C25: once an error bit is set in the bitcode reader it stays set, and
\* every later bc_rs_next_data_record returns Err: no DataRecord, StartBlock
\* or EndBlock is delivered after an error.
C25_ReaderFailureSticky ==
  (stream.open /\ stream.fault = "none" /\ stream.call.op = "next"
     /\ stream.call.err0 # {})
    => /\ stream.call.err0 \subseteq stream.stream_err
       /\ stream.ri.record_type = "Err"

\* C26: on a data record of size n, reading operand i < n returns that
\* operand, and reading an index i >= n, given or taken from the read-next
\* cursor, sets NO_SUCH_VALUE and returns 0 without reading record_buf
\* outside the record.
C26_OperandBounds ==
  (stream.open /\ stream.call.op \in {"read", "read_next"})
    => /\ stream.fault = "none"
       /\ IF stream.call.i < stream.current_record_size
            THEN (stream.call.bits = 64 \/ Operand(stream, stream.call.i) < Pow2(stream.call.bits))
                   => stream.ret = Operand(stream, stream.call.i)
            ELSE /\ "NO_SUCH_VALUE" \in stream.stream_err
                 /\ stream.ret = 0
                 /\ ~stream.read_outside

\* C27: load_grammar hands its caller a grammar only if a STRINGS block, at
\* least one IntFA and at least one RTN were loaded; when the records end
\* without them it returns an error (a null grammar) to its caller, never a
\* grammar with unset fields.
C27_LoaderFinalization ==
  image.loaded
    => /\ image.status \in {"returned", "null"}
       /\ image.status = "returned"
            => /\ {BC_STRINGS, BC_INTFAS, BC_RTNS} \subseteq image.seen
               /\ image.g.strings = "loaded"
               /\ image.g.num_intfas >= 1
               /\ image.g.num_rtns >= 1

\* the IntFA that push_intfa_frame_for_gla_or_rtn takes from a frame
IntfaChosenBy(frame) ==
  IF frame.frame_type = "GLA" THEN GlaStateOf(frame.gla, frame.gla_state).intfa
  ELSE RtnStateOf(frame.rtn, frame.rtn_state).d

IsFinal(rtn, st) == RtnStateOf(rtn, st).is_final

\* the frames stack, all RTN frames, allow the input to end: every frame
\* under the top one has committed to a transition into a final state and
\* the top frame is in a final state
EndAllowed(stack) ==
  /\ \A k \in 1..(Len(stack) - 1) :
       /\ stack[k].rtn_transition # NULL_TRANSITION
       /\ IsFinal(stack[k].rtn, RtnTransition(stack[k].rtn_transition).dest_state)
  /\ IsFinal(stack[Len(stack)].rtn, stack[Len(stack)].rtn_state)

\* the same with the bottom frame, the start rule's, in the top frame's place
EndAllowedFromBottom(stack) ==
  /\ \A k \in 2..Len(stack) :
       /\ stack[k].rtn_transition # NULL_TRANSITION
       /\ IsFinal(stack[k].rtn, RtnTransition(stack[k].rtn_transition).dest_state)
  /\ IsFinal(stack[1].rtn, stack[1].rtn_state)

\* what gzl_finish_parse does once only RTN frames remain, given when it
\* is to return true
FinishAccepts(i, allowed) ==
  LET stack == last[i].rtn_phase.stack
      n == Len(stack)
      events == SubSeq(cb[i], last[i].rtn_phase.cbn + 1, Len(cb[i]))
  IN  /\ last[i].status \in {"TRUE", "FALSE"}
      /\ last[i].status = "TRUE" <=> (n = 0 \/ allowed)
      /\ last[i].status = "TRUE"
           => /\ ps[i].parse_stack_len = 0
              /\ Len(events) = n
              /\ \A k \in 1..n :
                   /\ events[k].kind = "end_rule"
                   /\ events[k].depth = n - k + 1
                   /\ events[k].arg = [rtn |-> G.rtns[stack[n - k + 1].rtn].name,
                                       start |-> stack[n - k + 1].start_offset.byte]
      /\ last[i].status = "FALSE" => events = << >> /\ last[i].post.stack = stack

NamedFrom(tokens, k) ==
  SelectSeq(SubSeq(tokens, k, Len(tokens)), LAMBDA t : t.name # NULL)

\* the terminal callbacks among the callbacks state i received after the
\* first n
TerminalsAfter(i, n) ==
  SelectSeq(SubSeq(cb[i], n + 1, Len(cb[i])), LAMBDA e : e.kind = "terminal")

\* the tokens of a buffer are in lexical order
LexicalOrder(tokens) ==
  \A j \in 1..(Len(tokens) - 1) :
    tokens[j].offset.byte + tokens[j].len <= tokens[j + 1].offset.byte

\* decision d of the latest call on state i was acted on as its
\* transition_offset says: 0 ended the rule of the frame below the GLA
\* frame, n > 0 took transition n of that frame's RTN state, which delivered
\* the next buffered terminal or started the transition's rule at it
GlaTook(i, d) ==
  LET events == SubSeq(cb[i], d.cbn + 1, Len(cb[i]))
      state == RtnStateOf(d.below.rtn, d.below.rtn_state)
      next_term == d.buffered[d.rto + 1]
  IN  /\ d.below.frame_type = "RTN"
      /\ d.rto < Len(d.buffered)
      /\ Len(events) > 0
      /\ d.offset = 0
           => /\ events[1].kind = "end_rule"
              /\ events[1].arg = [rtn |-> G.rtns[d.below.rtn].name,
                                  start |-> d.below.start_offset.byte]
      /\ d.offset > 0
           => /\ d.offset <= Len(state.transitions)
              /\ state.transitions[d.offset].transition_type = "TERMINAL"
                   => /\ events[1].kind = "terminal"
                      /\ events[1].arg = next_term
                      /\ next_term.name = state.transitions[d.offset].terminal_name
              /\ state.transitions[d.offset].transition_type = "NONTERM"
                   => /\ events[1].kind = "start_rule"
                      /\ events[1].arg = [rtn |-> G.rtns[state.transitions[d.offset].nonterminal].name,
                                          start |-> next_term.offset.byte]

\* the terminals buffered at decision d of the latest call on state i were
\* delivered to the terminal callback after the decision, in the buffer's
\* order, and none of them before it
GlaReplayed(i, d) ==
  LET pending == NamedFrom(d.buffered, d.rto + 1)
      delivered == TerminalsAfter(i, d.cbn)
  IN  /\ Len(delivered) >= Len(pending)
      /\ \A j \in 1..Len(pending) : delivered[j].arg = pending[j]
      /\ \A e \in 1..d.cbn :
           cb[i][e].kind = "terminal"
             => \A j \in 1..Len(pending) : cb[i][e].arg # pending[j]

\* the terminals buffered at decision d of the latest call on state i were
\* delivered after the decision in the buffer's order as far as the replay
\* went, none of them before it; those not delivered wait at the head of
\* the token buffer for the GLA frame that the replay ran into
GlaReplayedUntilNextGla(i, d) ==
  LET pending == NamedFrom(d.buffered, d.rto + 1)
      delivered == TerminalsAfter(i, d.cbn)
      tokens == last[i].post.tokens
      stack == last[i].post.stack
  IN  /\ \A j \in 1..Len(pending) : j <= Len(delivered) => delivered[j].arg = pending[j]
      /\ \A e \in 1..d.cbn :
           cb[i][e].kind = "terminal"
             => \A j \in 1..Len(pending) : cb[i][e].arg # pending[j]
      /\ (Len(delivered) < Len(pending) /\ last[i].status \in {"OK", "EOF", "TRUE"})
           => /\ Len(tokens) >= Len(pending) - Len(delivered)
              /\ \A j \in 1..(Len(pending) - Len(delivered)) :
                   tokens[j] = pending[Len(delivered) + j]
              /\ \E f \in 1..Len(stack) : stack[f].frame_type = "GLA"

\* C30 as stated: GLA decision and replay.  Whenever a GLA frame reaches a
\* final state in a call that ends without an error, the token buffer holds
\* the terminals in lexical order, the GLA frame is popped,
\* transition_offset 0 pops the RTN frame below and n > 0 takes its state's
\* n-th transition, and every buffered terminal is then delivered to the
\* terminal callback, once and in the buffer's order, after the start_rule
\* of the rule the GLA selected.
C30_ReplaysWholeBuffer ==
  \A i \in States :
    (last[i].op \in {"parse", "finish"} /\ fault = "none"
       /\ last[i].status \in {"OK", "EOF", "TRUE"})
      => \A k \in 1..Len(last[i].decided) :
           /\ LexicalOrder(last[i].decided[k].buffered)
           /\ GlaTook(i, last[i].decided[k])
           /\ GlaReplayed(i, last[i].decided[k])

\* C30 amended: GLA decision and replay.  Whenever a GLA frame reaches a
\* final state, the token buffer holds the terminals in lexical order, the
\* GLA frame is popped, transition_offset 0 pops the RTN frame below and
\* n > 0 takes its state's n-th transition, delivering end_rule, the next
\* buffered terminal or the start_rule of the selected rule; the buffered
\* terminals are then delivered to the terminal callback in the buffer's
\* order, none of them twice, until the RTN stack enters another GLA: the
\* terminals not yet delivered stay at the head of the token buffer, in
\* order, and that GLA reads them.
C30_ReplaysUntilNextGla ==
  \A i \in States :
    (last[i].op \in {"parse", "finish"} /\ fault = "none")
      => \A k \in 1..Len(last[i].decided) :
           /\ LexicalOrder(last[i].decided[k].buffered)
           /\ GlaTook(i, last[i].decided[k])
           /\ GlaReplayedUntilNextGla(i, last[i].decided[k])

\* a GLA read two terminals, selected a rule, and both terminals were
\* delivered inside that rule: start_rule, start_rule, terminal, terminal,
\* end_rule, end_rule
C30_Witness ==
  /\ fault = "none" /\ last[1].op = "parse" /\ Len(last[1].decided) = 1
  /\ last[1].decided[1].offset = 2
  /\ Len(NamedFrom(last[1].decided[1].buffered, 1)) = 2
  /\ last[1].decided[1].cbn = 1
  /\ Len(cb[1]) = 6
  /\ [k \in 1..6 |-> cb[1][k].kind]
       = <<"start_rule", "start_rule", "terminal", "terminal", "end_rule", "end_rule">>
  /\ cb[1][2].arg.rtn = "B"
  /\ cb[1][3].arg = last[1].decided[1].buffered[1]
  /\ cb[1][4].arg = last[1].decided[1].buffered[2]

\* C31: eager finalisation.  When a byte takes the top IntFA frame into an
\* accepting state without transitions, the terminal is finalised while that
\* byte is processed: it starts where the IntFA frame started, its len is
\* offset.byte minus that start with the byte counted, it is handed to the
\* parser at once (delivered to a callback at this offset, or put in the
\* token buffer for a GLA), and if the parse goes on a fresh IntFA frame in
\* its start state begins at the next byte.
C31_EagerFinalisation ==
  \A i \in States :
    (last[i].op = "parse" /\ fault = "none")
      => \A k \in 1..Len(last[i].eager) :
           LET e == last[i].eager[k]
           IN  /\ e.term.offset = e.frame.start_offset
               /\ e.term.len = e.at - e.frame.start_offset.byte
               /\ e.term.len >= 1
               /\ \/ \E n \in (e.cbn + 1)..Len(cb[i]) :
                       /\ cb[i][n].kind \in {"terminal", "error_terminal"}
                       /\ cb[i][n].arg = e.term
                       /\ cb[i][n].byte = e.at
                  \/ \E n \in 1..Len(last[i].post.tokens) : last[i].post.tokens[n] = e.term
                  \/ \E d \in 1..Len(last[i].decided) :
                       \E n \in 1..Len(last[i].decided[d].buffered) :
                         last[i].decided[d].buffered[n] = e.term
               /\ e.status = "OK"
                    => /\ e.top.frame_type = "INTFA"
                       /\ e.top.start_offset.byte = e.at
                       /\ e.top.intfa_state = 1

RECURSIVE RunIntfa(_, _, _, _, _)
RunIntfa(intfa, bytes, k, n, st) ==
  IF k > n THEN st
  ELSE IF intfa_transition_from(IntfaStateOf(intfa, st).transitions, bytes[k], 1) = 0 THEN 0
  ELSE RunIntfa(intfa, bytes, k + 1, n,
                IntfaStateOf(intfa, st).transitions[
                  intfa_transition_from(IntfaStateOf(intfa, st).transitions, bytes[k], 1)].dest_state)

\* C33: IntFA frame invariant.  Whenever the top frame is an IntFA frame,
\* its start_offset.byte is at most offset.byte, and its state is the one
\* its IntFA reaches from the start state over the input bytes at positions
\* start_offset.byte .. offset.byte - 1.  (The input is what gzl_parse was
\* handed; the positions are those of offset.byte as long as every byte
\* handed over before the latest call was consumed.)
C33_IntfaFrame ==
  \A i \in States :
    (/\ ps[i].allocated /\ fault = "none"
     /\ last[i].op \in {"parse", "finish"}
     /\ Len(fed[i]) - Len(last[i].buf) = last[i].pre.offset.byte
     /\ Logical(ps[i], mem).stack # << >>
     /\ Logical(ps[i], mem).stack[Len(Logical(ps[i], mem).stack)].frame_type = "INTFA")
      => LET top == Logical(ps[i], mem).stack[Len(Logical(ps[i], mem).stack)]
         IN  /\ top.start_offset.byte <= ps[i].offset.byte
             /\ ps[i].offset.byte <= Len(fed[i])
             /\ top.intfa_state
                  = RunIntfa(top.intfa, fed[i], top.start_offset.byte + 1, ps[i].offset.byte, 1)

\* an IntFA frame that began after the first token and has read two bytes
C33_Witness ==
  /\ fault = "none" /\ last[1].op = "parse" /\ last[1].status = "OK"
  /\ Logical(ps[1], mem).stack # << >>
  /\ LET top == Logical(ps[1], mem).stack[Len(Logical(ps[1], mem).stack)]
     IN  /\ top.frame_type = "INTFA"
         /\ top.start_offset.byte >= 1
         /\ ps[1].offset.byte = top.start_offset.byte + 2
         /\ top.intfa_state # 1

\* C34: variable-width decoding.  read_vbr_64 returns the value whose bits
\* are the payloads of the groups, least significant group first, with no
\* bit lost, for every value of up to 64 bits; read_vbr returns the same
\* value when it fits 32 bits and flags CORRUPT_INPUT exactly when it does
\* not.
C34_VbrDecoding ==
  /\ (stream.open /\ stream.call.op = "read_vbr_64") => stream.val = stream.vbr.value
  /\ (stream.open /\ stream.call.op = "read_vbr")
       => /\ ("CORRUPT_INPUT" \in stream.stream_err) <=> (stream.vbr.value \cap 32..63 # {})
          /\ stream.vbr.value \subseteq 0..31 => stream.val = stream.vbr.value

\* the frames 1..n of a stack are all RTN frames, and there is at least one
RtnFramesUpTo(stack, n) ==
  n >= 1 /\ \A k \in 1..n : stack[k].frame_type = "RTN"

\* the frame below the top frame is a GLA frame in a nonfinal state standing
\* on RTN frames only, and the top frame runs that state's IntFA
LexesForGla(stack) ==
  /\ stack[Len(stack) - 1].frame_type = "GLA"
  /\ ~GlaStateOf(stack[Len(stack) - 1].gla, stack[Len(stack) - 1].gla_state).is_final
  /\ stack[Len(stack)].intfa
       = GlaStateOf(stack[Len(stack) - 1].gla, stack[Len(stack) - 1].gla_state).intfa
  /\ RtnFramesUpTo(stack, Len(stack) - 2)

\* the frame below the top frame is an RTN frame in a HAS_INTFA state
\* standing on RTN frames only, and the top frame runs that state's IntFA
LexesForRtn(stack) ==
  /\ stack[Len(stack) - 1].frame_type = "RTN"
  /\ RtnStateOf(stack[Len(stack) - 1].rtn, stack[Len(stack) - 1].rtn_state).lookahead_type
       = "HAS_INTFA"
  /\ stack[Len(stack)].intfa
       = RtnStateOf(stack[Len(stack) - 1].rtn, stack[Len(stack) - 1].rtn_state).d
  /\ RtnFramesUpTo(stack, Len(stack) - 1)

StackShape(stack) ==
  /\ Len(stack) >= 2
  /\ stack[Len(stack)].frame_type = "INTFA"
  /\ LexesForGla(stack) \/ LexesForRtn(stack)

\* C35: stack shape.  After gzl_init_parse_state and one or more gzl_parse
\* calls that all returned OK, the stack is one or more RTN frames, then at
\* most one GLA frame, then exactly one IntFA frame on top; the frame below
\* the IntFA frame is a GLA frame in a nonfinal state or an RTN frame whose
\* state has lookahead type HAS_INTFA, and the IntFA frame runs the IntFA of
\* that state.
C35_StackShape ==
  \A i \in States :
    (/\ ps[i].allocated /\ fault = "none"
     /\ last[i].op = "parse" /\ last[i].all_ok)
      => StackShape(Logical(ps[i], mem).stack)

\* two parse calls have returned OK and left an IntFA frame on a GLA frame
\* that has left its start state, above two RTN frames or more
C35_Witness ==
  /\ fault = "none" /\ last[1].op = "parse" /\ last[1].all_ok /\ last[1].ncalls >= 2
  /\ Len(Logical(ps[1], mem).stack) >= 4
  /\ LexesForGla(Logical(ps[1], mem).stack)
  /\ Logical(ps[1], mem).stack[Len(Logical(ps[1], mem).stack) - 1].gla_state # 1

\* where the next terminal begins according to a parse state: byte 0 before
\* the first call, the start of the IntFA frame on top after it
LexStart(state) ==
  IF state.stack = << >> THEN 0 ELSE state.stack[Len(state.stack)].start_offset.byte

\* where the terminals lexed by the latest call on parse state i end
LexEnd(i) ==
  IF last[i].lexed = << >> THEN LexStart(last[i].pre)
  ELSE last[i].lexed[Len(last[i].lexed)].offset.byte + last[i].lexed[Len(last[i].lexed)].len

\* the latest call on parse state i began where lexing can begin: on a
\* fresh parse state, or with an IntFA frame on top
LexingFrom(i) ==
  /\ ps[i].allocated /\ fault = "none"
  /\ last[i].op \in {"parse", "finish"}
  /\ \/ last[i].pre.stack = << >> /\ last[i].pre.offset.byte = 0
     \/ /\ last[i].pre.stack # << >>
        /\ last[i].pre.stack[Len(last[i].pre.stack)].frame_type = "INTFA"

\* C36: terminals tile the input.  The terminals the lexer hands over (the
\* zero-length EOF sentinel aside) are contiguous and do not overlap: the
\* first starts at byte 0, each later one starts at the byte where the one
\* before it ended, each is at least one byte long, and the IntFA frame on
\* top starts where the last of them ended.  Stated call by call: the first
\* terminal of a call starts where the IntFA frame left by the call before
\* started (byte 0 in the first call).
C36_TerminalsTile ==
  \A i \in States :
    LexingFrom(i)
      => /\ \A k \in 1..Len(last[i].lexed) :
              /\ last[i].lexed[k].len >= 1
              /\ last[i].lexed[k].offset.byte
                   = IF k = 1 THEN LexStart(last[i].pre)
                     ELSE last[i].lexed[k - 1].offset.byte + last[i].lexed[k - 1].len
         /\ (/\ last[i].op = "parse" /\ last[i].status = "OK"
             /\ last[i].post.stack # << >>
             /\ last[i].post.stack[Len(last[i].post.stack)].frame_type = "INTFA")
              => LexStart(last[i].post) = LexEnd(i)

\* the state GLA gla is in after the terminals k.. of tokens, begun in state
\* st: 0 if a terminal has no transition
RECURSIVE RunGla(_, _, _, _)
RunGla(gla, tokens, k, st) ==
  IF k > Len(tokens) THEN st
  ELSE IF find_gla_transition(GlaStateOf(gla, st), tokens[k].name) = 0 THEN 0
  ELSE RunGla(gla, tokens, k + 1,
              GlaStateOf(gla, st).transitions[
                find_gla_transition(GlaStateOf(gla, st), tokens[k].name)].dest_state)

\* gzl_parse has returned OK on parse state i and left an IntFA frame on top
LexingOn(i) ==
  /\ ps[i].allocated /\ fault = "none"
  /\ last[i].op = "parse" /\ last[i].status = "OK"
  /\ Len(Logical(ps[i], mem).stack) >= 2
  /\ Logical(ps[i], mem).stack[Len(Logical(ps[i], mem).stack)].frame_type = "INTFA"

\* C37: the token buffer is empty outside lookahead.  Whenever gzl_parse
\* returns OK and the frame below the top IntFA frame is an RTN frame, the
\* token buffer is empty and open_terminal_offset is the start offset of
\* the top IntFA frame; terminals stay buffered only while a GLA frame is on
\* the stack, and then that GLA has consumed every buffered terminal (its
\* state is the one the buffered terminals lead to from its start state).
C37_BufferOutsideLookahead ==
  \A i \in States :
    LexingOn(i)
      => LET state == Logical(ps[i], mem)
             top == state.stack[Len(state.stack)]
             below == state.stack[Len(state.stack) - 1]
         IN  /\ below.frame_type = "RTN"
                  => /\ state.tokens = << >>
                     /\ state.open_terminal_offset = top.start_offset
             /\ state.tokens # << >>
                  => /\ below.frame_type = "GLA"
                     /\ RunGla(below.gla, state.tokens, 1, 1) = below.gla_state

\* a GLA that had two terminals buffered has decided during a call that
\* returned OK, and the call has left an IntFA frame on an RTN frame
C37_Witness ==
  /\ LexingOn(1)
  /\ Logical(ps[1], mem).stack[Len(Logical(ps[1], mem).stack) - 1].frame_type = "RTN"
  /\ \E d \in 1..Len(last[1].decided) : Len(last[1].decided[d].buffered) >= 2
  /\ Logical(ps[1], mem).tokens = << >>

\* C38: gzl_finish_parse does not accept a rejected final token.  If
\* gzl_finish_parse finalises the pending lexeme of an accepting top IntFA
\* frame and an RTN state has no transition for that terminal
\* (error_terminal fires), gzl_finish_parse returns false and fires no
\* end_rule callback, even when the RTN states then on the stack are final.
C38_RejectedFinalToken ==
  \A i \in States :
    (/\ ps[i].allocated /\ fault = "none"
     /\ last[i].op = "finish" /\ last[i].ok_before
     /\ Len(last[i].lexed) = 1
     /\ last[i].rejected)
      => /\ last[i].status = "FALSE"
         /\ \A k \in (last[i].cb0 + 1)..Len(cb[i]) : cb[i][k].kind # "end_rule"

\* a parse state without the rtn_transition of its RTN frames
Unlinked(state) ==
  [state EXCEPT !.stack =
     [k \in 1..Len(state.stack) |->
        IF state.stack[k].frame_type = "RTN"
          THEN [state.stack[k] EXCEPT !.rtn_transition = NULL_TRANSITION]
          ELSE state.stack[k]]]

\* the callbacks of the given kinds among those delivered, as kind and argument
Delivered(events, kinds) ==
  [k \in 1..Len(SelectSeq(events, LAMBDA e : e.kind \in kinds)) |->
     [kind |-> SelectSeq(events, LAMBDA e : e.kind \in kinds)[k].kind,
      arg |-> SelectSeq(events, LAMBDA e : e.kind \in kinds)[k].arg]]

\* C39: callback independence.  For the same grammar and the same calls,
\* the statuses gzl_parse and gzl_finish_parse return, the offsets, the
\* token buffer and the stack's frame types and automaton states are the
\* same whether or not the terminal, start_rule, end_rule and error
\* callbacks are set; only the rtn_transition the terminal callback's branch
\* stores may differ, and the callbacks that are set are delivered as they
\* are when all are set.
C39_CallbackIndependence ==
  (ps[2].allocated /\ ps[2].bound_grammar # Callbacks)
    => /\ last[1].op = last[2].op
       /\ last[1].status = last[2].status
       /\ last[1].status # "ABORT"
            => /\ Unlinked(Logical(ps[1], mem)) = Unlinked(Logical(ps[2], mem))
               /\ Delivered(cb[2], Callbacks) = Delivered(cb[1], ps[2].bound_grammar)

\* two calls were made on a state with every callback unset and on one
\* with all set, two terminals were taken and a rule was entered from
\* another, and the parse states differ in an rtn_transition alone
C39_Witness ==
  /\ ps[2].allocated /\ ps[2].bound_grammar = {}
  /\ fault = "none" /\ last[1].ncalls >= 2 /\ last[1].all_ok
  /\ Len(Delivered(cb[1], {"terminal"})) >= 2
  /\ Len(Delivered(cb[1], {"start_rule"})) >= 2
  /\ cb[2] = << >>
  /\ Logical(ps[1], mem) # Logical(ps[2], mem)

\* C40: dynamic array capacity.  After INIT_DYNARRAY and any sequence of
\* RESIZE_DYNARRAY, as gzl_alloc_parse_state, gzl_init_parse_state and the
\* pushes and pops make them on the parse stack and the token buffer, the
\* capacity _size is at least the length _len, so that the element at index
\* _len - 1 lies within the allocation.
C40_DynarrayCapacity ==
  \A i \in States :
    (ps[i].allocated /\ fault = "none")
      => /\ ps[i].parse_stack_size >= ps[i].parse_stack_len
         /\ ps[i].token_buffer_size >= ps[i].token_buffer_len


====
